---- MODULE Spec2Model ----
(***************************************************************************)
(* A model of the anonymouus package.                                      *)
(*                                                                         *)
(*   - DynamicSubstitution (dynamic_substitution.py): the pseudonym        *)
(*     registry, its generator and the translation table file.             *)
(*   - Anonymize (anonymouus.py, uunonymous.py): construction of the rule  *)
(*     set and _substitute_ids.                                            *)
(*   - DateReplacer and DateHandler (date_replacer.py, date_handler.py):   *)
(*     the pattern lists and replace.                                      *)
(*   - Anonymize.substitute on a file tree, and substitute_string.         *)
(***************************************************************************)
EXTENDS Integers, Sequences, FiniteSets, TLC

(***************************************************************************)
(* Bounds of the registry model.                                           *)
(***************************************************************************)
MaxOriginals == 2
MaxPseudonyms == 2
MaxClock == 1
\* The longest table of the run that accumulates duplicates.
MaxRecords == 12

\* The retry bound of subtitute (loop_counter >= 5).
RetryBound == 5
\* The threshold of accumulated duplicates (duplicate_pseudonyms > 10).
DuplicateThreshold == 10

Originals == 1..MaxOriginals
\* The originals of the run that accumulates duplicates.
ManyOriginals == 1..MaxRecords
Pseudonyms == 1..MaxPseudonyms
Threads == {1, 2}
MainThread == 1

\* No pseudonym (Python: the name is not bound / None).
NoValue == 0

VARIABLES
    memory,                  \* self.memory: list of {'original', 'pseudonym'}
    duplicate_pseudonyms,    \* self.duplicate_pseudonyms
    code_generator_function, \* self.code_generator_function ("None" or a kind)
    th,                      \* per thread: the frame of a running subtitute
    fs,                      \* the files at and beside mapping_result_file
    now,                     \* datetime.now(), in seconds
    op,                      \* the last operation completed and its outcome
    requested,               \* history: originals requested so far
    firstRet,                \* history: pseudonym first returned per original
    exhausted,               \* history: requests that hit the retry bound
    warnings                 \* history: "repeatedly generates duplicates" logs

regVars == <<memory, duplicate_pseudonyms, code_generator_function, th, fs, now,
             op, requested, firstRet, exhausted, warnings>>

VARIABLES
    obj,     \* the Anonymize object (anonymouus.py or the older uunonymous.py)
    args,    \* history: the arguments the constructor was called with
    call     \* history: the last _substitute_ids call and its outcome

anonVars == <<obj, args, call>>

VARIABLES
    default_patterns, \* the default_patterns list of the redactor's class
    redactor,         \* the DateReplacer or DateHandler object
    dcall             \* history: the last call on a redactor and its outcome

dateVars == <<default_patterns, redactor, dcall>>

VARIABLES
    tree,             \* the file tree: the folders and files, by path
    date_replacer,    \* the date_replacer attribute of the Anonymize object
    processed_files,  \* stats["processed_files"] of the Anonymize object
    scall             \* history: the last substitute call and its outcome

treeVars == <<tree, date_replacer, processed_files, scall>>

(***************************************************************************)
(* Files.  File 0 is mapping_result_file; file t + 1 is the backup name     *)
(* "<filename>--<stamp><ext>" for the stamp of second t.  A file's data is  *)
(* its rows below the header; the row <<0, 0>> stands for content that no   *)
(* registry wrote.                                                          *)
(***************************************************************************)
Dest == 0
FileNames == 0..(MaxClock + 1)
NoFile == [exists |-> FALSE, data |-> <<>>]
EmptyFile == [exists |-> TRUE, data |-> <<>>]
ForeignFile == [exists |-> TRUE, data |-> <<<<0, 0>>>>]

\* f"{filename}--{stamp}{file_extension}" (line 58)
BackupName(stamp) == stamp + 1

\* Path(...).is_file()
IsFile(files, name) == files[name].exists

(***************************************************************************)
(* Generators.  A generator is described by what inspect.signature and its  *)
(* probe call see, and by how it computes a pseudonym.                      *)
(***************************************************************************)
GeneratorKinds == {"const", "hash"}

\* The functions handed to set_code_generator.
\* (defaults: the parameters after the first have default values.)
Generator(callable, params, defaults, raises, kind) ==
    [callable |-> callable, params |-> params, defaults |-> defaults,
     raises |-> raises, kind |-> kind]

GeneratorInputs ==
    { Generator(TRUE,  1, TRUE,  FALSE, "const"),
      Generator(TRUE,  1, TRUE,  FALSE, "hash"),
      Generator(TRUE,  2, TRUE,  FALSE, "hash"),
      Generator(TRUE,  2, FALSE, FALSE, "hash"),
      Generator(TRUE,  0, TRUE,  FALSE, "const"),
      Generator(TRUE,  1, TRUE,  TRUE,  "hash"),
      Generator(FALSE, 0, TRUE,  FALSE, "const") }

\* No function was handed over.
NoGenerator == Generator(FALSE, 0, TRUE, FALSE, "None")

\* What one generator invocation can return (lines 100-103): the installed
\* function applied to the string, or _code_generator's uuid4, which is a
\* random draw.
GeneratorOutputs(function, string) ==
    CASE function = "None"  -> Pseudonyms
      [] function = "const" -> {1}
      [] function = "hash"  -> {((string - 1) % MaxPseudonyms) + 1}

(***************************************************************************)
(* The frame of a subtitute call, and the record of the last operation.     *)
(***************************************************************************)
IdleFrame ==
    [pc |-> "idle", string |-> NoValue, pseudonym |-> NoValue,
     loop_counter |-> 0, calls |-> 0, seen |-> FALSE, hitBound |-> FALSE,
     memBefore |-> <<>>, dupBefore |-> 0]

NoOp ==
    [name |-> "none", outcome |-> "none", string |-> NoValue, ret |-> NoValue,
     seen |-> FALSE, calls |-> 0, hitBound |-> FALSE, warned |-> FALSE,
     memBefore |-> <<>>, dupBefore |-> 0, prior |-> NoFile, backup |-> Dest,
     function |-> NoGenerator, generatorBefore |-> "None",
     fsBefore |-> [n \in FileNames |-> NoFile], previous |-> <<"none", "none">>]

RegInit ==
    /\ memory = <<>>
    /\ duplicate_pseudonyms = 0
    /\ code_generator_function = "None"
    /\ th = [t \in Threads |-> IdleFrame]
    /\ fs \in { [n \in FileNames |-> IF n = Dest THEN d ELSE NoFile] :
                d \in {NoFile, ForeignFile} }
    /\ now = 0
    /\ op = NoOp
    /\ requested = {}
    /\ firstRet = [o \in Originals \cup ManyOriginals |-> NoValue]
    /\ exhausted = 0
    /\ warnings = 0

(***************************************************************************)
(* set_code_generator (lines 29-43)                                         *)
(***************************************************************************)
GeneratorAccepted(function) ==
    /\ function.callable
    /\ function.params = 1
    /\ ~function.raises

set_code_generator(function) ==
    /\ \A t \in Threads : th[t].pc = "idle"
    /\ LET done == [NoOp EXCEPT !.name = "set_code_generator",
                                !.function = function,
                                !.generatorBefore = code_generator_function]
       IN  IF GeneratorAccepted(function)
           THEN /\ code_generator_function' = function.kind
                /\ op' = [done EXCEPT !.outcome = "ok"]
           ELSE /\ code_generator_function' = code_generator_function
                /\ op' = [done EXCEPT !.outcome = "RuntimeError"]
    /\ UNCHANGED <<memory, duplicate_pseudonyms, th, fs, now, requested,
                   firstRet, exhausted, warnings, anonVars, dateVars, treeVars>>

(***************************************************************************)
(* subtitute (lines 91-120), one step per lookup, loop iteration and insert *)
(***************************************************************************)
\* A lookup that compares the wrong field of the record.
LookupByPseudonym(mem, string) == SelectSeq(mem, LAMBDA x : x.pseudonym = string)

\* A lookup that stops at the first record it finds.
LookupFirstOnly(mem, string) ==
    LET found == SelectSeq(mem, LAMBDA x : x.original = string)
    IN  IF found = <<>> THEN <<>> ELSE <<found[1]>>

\* A lookup that overlooks the latest record.
LookupAllButLast(mem, string) ==
    SelectSeq(SubSeq(mem, 1, Len(mem) - 1), LAMBDA x : x.original = string)

\* [x for x in self.memory if x['original'] == string] (line 92)
Lookup(mem, string) == SelectSeq(mem, LAMBDA x : x.original = string)

\* A collision test that finds every pseudonym free.
PseudonymNeverTaken(mem, pseudonym) == Len(mem) >= 0

\* len([x for x in self.memory if x['pseudonym'] == pseudonym]) == 0 (line 105)
PseudonymFree(mem, pseudonym) ==
    Len(SelectSeq(mem, LAMBDA x : x.pseudonym = pseudonym)) = 0

\* A retry bound that is off by one.
BoundHitLate(loop_counter) == loop_counter > RetryBound

\* loop_counter >= 5 (line 110)
BoundHit(loop_counter) == loop_counter >= RetryBound

\* An accepted collision that is not counted.
CountDuplicateNot(count) == count

\* An accepted collision that is counted twice.
CountDuplicateTwice(count) == count + 2

\* self.duplicate_pseudonyms += 1 (line 111)
CountDuplicate(count) == count + 1

\* A threshold test that already fires at the threshold.
ThresholdReached(count) == count >= DuplicateThreshold

\* self.duplicate_pseudonyms > 10 (line 116)
ThresholdPassed(count) == count > DuplicateThreshold

\* lines 92-98: the lookup and the branch on what it found
SubLookup(t, string) ==
    /\ th[t].pc = "idle"
    /\ LET mem == Lookup(memory, string)
           frame == [IdleFrame EXCEPT !.string = string,
                                      !.seen = string \in requested,
                                      !.memBefore = memory,
                                      !.dupBefore = duplicate_pseudonyms]
           done == [NoOp EXCEPT !.name = "subtitute", !.string = string,
                                !.seen = string \in requested,
                                !.memBefore = memory,
                                !.dupBefore = duplicate_pseudonyms]
       IN  /\ requested' = requested \cup {string}
           /\ IF Len(mem) = 1
              THEN /\ op' = [done EXCEPT !.outcome = "ok",
                                         !.ret = mem[1].pseudonym]
                   /\ firstRet' = IF firstRet[string] = NoValue
                                  THEN [firstRet EXCEPT ![string] = mem[1].pseudonym]
                                  ELSE firstRet
                   /\ th' = th
              ELSE IF Len(mem) > 1
              THEN /\ op' = [done EXCEPT !.outcome = "ValueError"]
                   /\ UNCHANGED <<th, firstRet>>
              ELSE /\ th' = [th EXCEPT ![t] = [frame EXCEPT !.pc = "loop"]]
                   /\ UNCHANGED <<op, firstRet>>
    /\ UNCHANGED <<memory, duplicate_pseudonyms, code_generator_function, fs,
                   now, exhausted, warnings, anonVars, dateVars, treeVars>>

\* lines 99-112: one iteration of the while loop
SubAttempt(t) ==
    /\ th[t].pc = "loop"
    /\ \E pseudonym \in GeneratorOutputs(code_generator_function, th[t].string) :
         LET f == [th[t] EXCEPT !.pseudonym = pseudonym, !.calls = @ + 1]
         IN  IF PseudonymFree(memory, pseudonym)
             THEN /\ th' = [th EXCEPT ![t] = [f EXCEPT !.pc = "insert"]]
                  /\ UNCHANGED <<duplicate_pseudonyms, exhausted>>
             ELSE IF BoundHit(f.loop_counter + 1)
             THEN /\ th' = [th EXCEPT ![t] =
                              [f EXCEPT !.pc = "insert", !.hitBound = TRUE,
                                        !.loop_counter = @ + 1]]
                  /\ duplicate_pseudonyms' = CountDuplicate(duplicate_pseudonyms)
                  /\ exhausted' = exhausted + 1
             ELSE /\ th' = [th EXCEPT ![t] = [f EXCEPT !.loop_counter = @ + 1]]
                  /\ UNCHANGED <<duplicate_pseudonyms, exhausted>>
    /\ UNCHANGED <<memory, code_generator_function, fs, now, op, requested,
                   firstRet, warnings, anonVars, dateVars, treeVars>>

\* lines 114-120: append, the threshold check and the return
SubInsert(t) ==
    /\ th[t].pc = "insert"
    /\ memory' = Append(memory, [original |-> th[t].string,
                                 pseudonym |-> th[t].pseudonym])
    /\ LET warn == ThresholdPassed(duplicate_pseudonyms)
       IN  /\ duplicate_pseudonyms' = IF warn THEN 0 ELSE duplicate_pseudonyms
           /\ warnings' = IF warn THEN warnings + 1 ELSE warnings
           /\ op' = [NoOp EXCEPT !.name = "subtitute", !.outcome = "ok",
                                 !.string = th[t].string,
                                 !.ret = th[t].pseudonym,
                                 !.seen = th[t].seen,
                                 !.calls = th[t].calls,
                                 !.hitBound = th[t].hitBound,
                                 !.warned = warn,
                                 !.memBefore = th[t].memBefore,
                                 !.dupBefore = th[t].dupBefore]
    /\ firstRet' = IF firstRet[th[t].string] = NoValue
                   THEN [firstRet EXCEPT ![th[t].string] = th[t].pseudonym]
                   ELSE firstRet
    /\ th' = [th EXCEPT ![t] = IdleFrame]
    /\ UNCHANGED <<code_generator_function, fs, now, requested, exhausted,
                   anonVars, dateVars, treeVars>>

(***************************************************************************)
(* write_translation_table (lines 63-89) and _backup_existing_result_file   *)
(* (lines 48-61)                                                            *)
(***************************************************************************)
\* open(mapping_result_file, "w") (line 69): creates the file, or truncates
\* the one that is there.
OpenForWriting(files, name) == [files EXCEPT ![name] = EmptyFile]

\* The while loop of lines 54-58: backup_file starts as the file itself; each
\* iteration reads the clock and stamps a name with it, and a name that is
\* taken makes the loop spin until the clock shows the next second.
RECURSIVE BackupLoop(_, _, _)
BackupLoop(files, backup_file, clock) ==
    IF clock > MaxClock
    THEN [file |-> backup_file, clock |-> clock]
    ELSE IF ~IsFile(files, backup_file)
    THEN [file |-> backup_file, clock |-> clock]
    ELSE IF backup_file = BackupName(clock)
    THEN BackupLoop(files, BackupName(clock + 1), clock + 1)
    ELSE BackupLoop(files, BackupName(clock), clock)

\* os.rename(mapping_result_file, backup_file) (line 60)
Rename(files, from, to) == [files EXCEPT ![to] = files[from], ![from] = NoFile]

\* _backup_existing_result_file: the files and the clock it leaves
BackupExistingResultFile(files, clock) ==
    IF ~IsFile(files, Dest)
    THEN [files |-> files, clock |-> clock, backup |-> Dest]
    ELSE LET found == BackupLoop(files, Dest, clock)
         IN  [files |-> Rename(files, Dest, found.file),
              clock |-> found.clock, backup |-> found.file]

\* dict_writer.writerows(self.memory) (lines 76-81)
TableRows(mem) == [i \in 1..Len(mem) |-> <<mem[i].original, mem[i].pseudonym>>]

WriteRows(files, mem) ==
    [files EXCEPT ![Dest] = [exists |-> TRUE, data |-> TableRows(mem)]]

\* The file system after the lines 68-81, in the order the code runs them.
WrittenFiles(files, clock, mem) ==
    LET opened == OpenForWriting(files, Dest)
        backed == BackupExistingResultFile(opened, clock)
    IN  [backed EXCEPT !.files = WriteRows(backed.files, mem)]

\* An emptiness test that never finds the registry empty.
NothingToWriteNever(mem) == Len(mem) < 0

\* len(self.memory) == 0 (line 64)
NothingToWrite(mem) == Len(mem) = 0

write_translation_table(openFails) ==
    /\ \A t \in Threads : th[t].pc = "idle"
    /\ LET done == [NoOp EXCEPT !.name = "write_translation_table",
                                !.memBefore = memory, !.prior = fs[Dest],
                                !.fsBefore = fs,
                                !.previous = <<op.name, op.outcome>>]
       IN  IF NothingToWrite(memory)
           THEN /\ op' = [done EXCEPT !.outcome = "nothing"]
                /\ UNCHANGED <<fs, now>>
           ELSE IF openFails
           THEN /\ op' = [done EXCEPT !.outcome = "OSError"]
                /\ UNCHANGED <<fs, now>>
           ELSE LET w == WrittenFiles(fs, now, memory)
                IN  /\ w.clock <= MaxClock
                    /\ fs' = w.files
                    /\ now' = w.clock
                    /\ op' = [done EXCEPT !.outcome = "ok", !.backup = w.backup]
    /\ UNCHANGED <<memory, duplicate_pseudonyms, code_generator_function, th,
                   requested, firstRet, exhausted, warnings, anonVars, dateVars, treeVars>>

\* The wall clock moves on by a second.
Tick ==
    /\ now < MaxClock
    /\ now' = now + 1
    /\ UNCHANGED <<memory, duplicate_pseudonyms, code_generator_function, th,
                   fs, op, requested, firstRet, exhausted, warnings, anonVars, dateVars, treeVars>>

(***************************************************************************)
(* Properties of the registry.                                              *)
(***************************************************************************)
\* The number of records of the table for one original.
Records(mem, original) == Len(SelectSeq(mem, LAMBDA x : x.original = original))

\* C1: a request for an original that was requested before returns the
\* pseudonym the first request for it returned, invokes the generator not
\* once and leaves the table as it was.
C1_RepeatedRequestIsLookup ==
    (op.name = "subtitute" /\ op.seen) =>
        /\ op.outcome = "ok"
        /\ op.ret = firstRet[op.string]
        /\ op.ret # NoValue
        /\ op.calls = 0
        /\ memory = op.memBefore

C1_Witness ==
    /\ op.name = "subtitute"
    /\ op.seen
    /\ op.outcome = "ok"
    /\ Len(memory) = MaxOriginals
    /\ op.string = memory[1].original

\* C2: between requests the table holds exactly one record for every
\* original requested so far and none for any other value.
C2_OneRecordPerRequested ==
    th[MainThread].pc = "idle" =>
        /\ \A o \in Originals :
              Records(memory, o) = IF o \in requested THEN 1 ELSE 0
        /\ \A i \in 1..Len(memory) : memory[i].original \in requested

C2_Witness ==
    /\ th[MainThread].pc = "idle"
    /\ Cardinality(requested) >= 2
    /\ op.name = "subtitute"
    /\ op.seen

\* C3: after write_translation_table has written a table over a file that
\* was at the destination, that file's prior content is found, unaltered,
\* under the backup name.
C3_PriorContentKept ==
    (/\ op.name = "write_translation_table"
     /\ op.outcome = "ok"
     /\ op.prior.exists) =>
        /\ op.backup # Dest
        /\ fs[op.backup] = op.prior

\* C4: a request for an unseen original invokes the generator at most
\* RetryBound times (each iteration that does not leave the loop raises
\* loop_counter, which stays below the bound inside the loop), and ends
\* having appended exactly one record and returned its pseudonym.
C4_BoundedRetries ==
    /\ th[MainThread].calls <= RetryBound
    /\ th[MainThread].pc = "loop" =>
          /\ th[MainThread].loop_counter < RetryBound
          /\ th[MainThread].calls = th[MainThread].loop_counter
    /\ (op.name = "subtitute" /\ ~op.seen) =>
          /\ op.outcome = "ok"
          /\ op.calls \in 1..RetryBound
          /\ op.ret \in Pseudonyms
          /\ memory = Append(op.memBefore,
                             [original |-> op.string, pseudonym |-> op.ret])

C4_Witness ==
    /\ op.name = "subtitute"
    /\ ~op.seen
    /\ op.calls = RetryBound
    /\ code_generator_function = "const"

\* Every attempt of the request that just returned collided: the loop ran to
\* its bound and the pseudonym returned was already recorded for another
\* original.  (No later request is under way.)
AllAttemptsCollided ==
    /\ th[MainThread].pc = "idle"
    /\ op.name = "subtitute"
    /\ ~op.seen
    /\ op.calls = RetryBound
    /\ \E i \in 1..Len(op.memBefore) :
          /\ op.memBefore[i].pseudonym = op.ret
          /\ op.memBefore[i].original # op.string

\* C5: when every attempt collides the request raises no error, records the
\* original with the colliding pseudonym, returns it, and raises the
\* duplicate counter by one (after which the threshold check may reset it).
C5_CollisionAccepted ==
    AllAttemptsCollided =>
        /\ op.outcome = "ok"
        /\ memory[Len(memory)] = [original |-> op.string, pseudonym |-> op.ret]
        /\ Len(memory) = Len(op.memBefore) + 1
        /\ IF op.warned
           THEN op.dupBefore + 1 > DuplicateThreshold /\ duplicate_pseudonyms = 0
           ELSE duplicate_pseudonyms = op.dupBefore + 1

C5_Witness ==
    /\ AllAttemptsCollided
    /\ duplicate_pseudonyms = 1
    /\ Len(memory) = 2

\* A call with one positional argument fits the function and returns.
CallableWithOneArgument(function) ==
    /\ function.callable
    /\ function.params >= 1
    /\ function.params = 1 \/ function.defaults
    /\ ~function.raises

\* C14: set_code_generator installs every callable that takes a positional
\* argument (further parameters having defaults) and whose probe call
\* succeeds, and rejects every other function with an error, leaving the
\* installed generator as it was.
C14_GeneratorValidated ==
    op.name = "set_code_generator" =>
        IF CallableWithOneArgument(op.function)
        THEN op.outcome = "ok" /\ code_generator_function = op.function.kind
        ELSE /\ op.outcome = "RuntimeError"
             /\ code_generator_function = op.generatorBefore

\* C15: write_translation_table called again right after a successful
\* write_translation_table, no request in between, leaves the files as the
\* first call left them: the same destination content, no further file.
C15_WriteTwiceSameFiles ==
    (/\ op.name = "write_translation_table"
     /\ op.outcome = "ok"
     /\ op.previous = <<"write_translation_table", "ok">>) =>
        fs = op.fsBefore

\* C16: write_translation_table on a registry without records raises no
\* error and leaves every file as it was: nothing is created, truncated or
\* renamed, also when a file is present at the destination.
C16_EmptyWriteChangesNothing ==
    (op.name = "write_translation_table" /\ Len(op.memBefore) = 0) =>
        /\ op.outcome = "nothing"
        /\ fs = op.fsBefore
        /\ memory = <<>>

C16_Witness ==
    /\ op.name = "write_translation_table"
    /\ Len(op.memBefore) = 0
    /\ op.outcome = "nothing"
    /\ op.fsBefore[Dest] = ForeignFile
    /\ fs[Dest] = ForeignFile

\* C23: once two interleaved requests for one unseen original have both
\* found no record and both appended one, every request for that original
\* raises the double-entry ValueError.
C23_DoubleInsertIsFatal ==
    (op.name = "subtitute" /\ Records(op.memBefore, op.string) >= 2) =>
        /\ op.outcome = "ValueError"
        /\ memory = op.memBefore

C23_Witness ==
    /\ op.name = "subtitute"
    /\ op.outcome = "ValueError"
    /\ Records(memory, op.string) = 2
    /\ \A t \in Threads : th[t].pc = "idle"

\* C24: with one caller no original has two records in the table, and no
\* subtitute call raises the double-entry ValueError.
C24_NoDoubleEntry ==
    /\ \A o \in Originals : Records(memory, o) <= 1
    /\ op.outcome # "ValueError"

C24_Witness ==
    /\ op.name = "subtitute"
    /\ op.seen
    /\ op.outcome = "ok"
    /\ code_generator_function = "hash"
    /\ Len(memory) = MaxOriginals
    /\ fs[Dest].exists
    /\ fs[Dest].data # <<>>

\* C25: while the loop of a request runs, the table and the duplicate
\* counter are as the request found them; leaving the loop raises the
\* counter by one exactly when the retry bound was hit, and the request ends
\* with one record appended.
C25_CollisionsChangeNothing ==
    LET f == th[MainThread]
    IN  /\ f.pc = "loop" =>
              /\ memory = f.memBefore
              /\ duplicate_pseudonyms = f.dupBefore
        /\ f.pc = "insert" =>
              /\ memory = f.memBefore
              /\ duplicate_pseudonyms =
                     f.dupBefore + (IF f.hitBound THEN 1 ELSE 0)
        /\ (f.pc = "idle" /\ op.name = "subtitute" /\ ~op.seen) =>
              /\ Len(memory) = Len(op.memBefore) + 1
              /\ SubSeq(memory, 1, Len(op.memBefore)) = op.memBefore
              /\ duplicate_pseudonyms \in
                     {0, op.dupBefore + (IF op.hitBound THEN 1 ELSE 0)}

C25_Witness ==
    /\ th[MainThread].pc = "loop"
    /\ th[MainThread].loop_counter = RetryBound - 1
    /\ Len(memory) = 1
    /\ duplicate_pseudonyms = 0

\* C26: between requests the duplicate counter is in 0..10; a request warns
\* exactly when it is the accepted collision that finds the counter at 10,
\* and it then leaves the counter at 0.
C26_DuplicateCounterBounded ==
    th[MainThread].pc = "idle" =>
        /\ duplicate_pseudonyms \in 0..DuplicateThreshold
        /\ op.name = "subtitute" =>
              /\ op.warned <=>
                    (op.hitBound /\ op.dupBefore = DuplicateThreshold)
              /\ op.warned => duplicate_pseudonyms = 0
        /\ warnings <= exhausted \div (DuplicateThreshold + 1)

C26_Witness ==
    /\ th[MainThread].pc = "idle"
    /\ op.name = "subtitute"
    /\ op.warned
    /\ op.dupBefore = DuplicateThreshold
    /\ duplicate_pseudonyms = 0
    /\ warnings = 1

\* The pseudonyms of the table.
PseudonymsOf(mem) == {mem[i].pseudonym : i \in 1..Len(mem)}

\* C30: with one caller the number of records minus the number of distinct
\* pseudonyms is at most the number of requests that hit the retry bound.
C30_SharedPseudonymsAccepted ==
    Len(memory) - Cardinality(PseudonymsOf(memory)) <= exhausted

C30_Witness ==
    /\ th[MainThread].pc = "idle"
    /\ Len(memory) - Cardinality(PseudonymsOf(memory)) = 1
    /\ exhausted = 1
    /\ code_generator_function = "None"

(***************************************************************************)
(* Text.  A Python str is a sequence of one-character strings.              *)
(***************************************************************************)
Backslash == "\\"

LowerCase == <<"a", "b", "c", "d", "e", "f", "g", "h", "i", "j", "k", "l", "m",
               "n", "o", "p", "q", "r", "s", "t", "u", "v", "w", "x", "y", "z">>
UpperCase == <<"A", "B", "C", "D", "E", "F", "G", "H", "I", "J", "K", "L", "M",
               "N", "O", "P", "Q", "R", "S", "T", "U", "V", "W", "X", "Y", "Z">>
Digits == {"0", "1", "2", "3", "4", "5", "6", "7", "8", "9"}

Range(seq) == {seq[i] : i \in 1..Len(seq)}

\* The characters \w matches, which decide where \b holds.
WordChars == Range(LowerCase) \cup Range(UpperCase) \cup Digits \cup {"_"}

\* The characters re.escape puts a backslash before (its _special_chars_map).
SpecialChars == {"(", ")", "[", "]", "{", "}", "?", "*", "+", "-", "|", "^",
                 "$", Backslash, ".", "&", "~", "#", " ", "\t", "\n", "\r"}

\* str.lower() of one character, as re.IGNORECASE compares
Lower(c) ==
    IF c \in Range(UpperCase)
    THEN LowerCase[CHOOSE i \in 1..Len(UpperCase) : UpperCase[i] = c]
    ELSE c

\* re.escape(key) (anonymouus.py line 347, uunonymous.py line 82)
RECURSIVE Escape(_)
Escape(s) ==
    IF s = <<>> THEN <<>>
    ELSE (IF Head(s) \in SpecialChars THEN <<Backslash, Head(s)>>
          ELSE <<Head(s)>>) \o Escape(Tail(s))

\* str.strip() (lines 340-341): surrounding white space removed
RECURSIVE StripLeft(_)
StripLeft(s) ==
    IF s # <<>> /\ Head(s) \in {" ", "\t", "\n", "\r"} THEN StripLeft(Tail(s)) ELSE s

RECURSIVE StripRight(_)
StripRight(s) ==
    IF s # <<>> /\ s[Len(s)] \in {" ", "\t", "\n", "\r"}
    THEN StripRight(SubSeq(s, 1, Len(s) - 1)) ELSE s

Strip(s) == StripRight(StripLeft(s))

\* str.startswith(prefix)
StartsWith(s, prefix) ==
    Len(s) >= Len(prefix) /\ SubSeq(s, 1, Len(prefix)) = prefix

(***************************************************************************)
(* Regular expressions (the re module), for the syntax the rule sets use:   *)
(* literal characters, escaped characters, the dot, the lazy .*?, the word  *)
(* boundary \b and plain groups.                                            *)
(***************************************************************************)
Lit(c) == [t |-> "lit", c |-> c]
AnyChar == [t |-> "any", c |-> ""]
LazyAny == [t |-> "lazy", c |-> ""]
WordBoundary == [t |-> "wb", c |-> ""]
\* [chars]{min,max}, greedy: a character set repeated; (\d){4} is the set of
\* the digits four times
CharSet(chars, min, max) ==
    [t |-> "set", c |-> "", chars |-> chars, min |-> min, max |-> max]
\* ( ... )? around the rest of the pattern, greedy
OptionalRest == [t |-> "optrest", c |-> ""]

\* re.compile / sre_parse: the pattern text as a sequence of items
RECURSIVE ParseRegex(_)
ParseRegex(p) ==
    IF p = <<>> THEN <<>>
    ELSE IF p[1] = Backslash /\ Len(p) >= 2
    THEN <<IF p[2] = "b" THEN WordBoundary ELSE Lit(p[2])>>
             \o ParseRegex(SubSeq(p, 3, Len(p)))
    ELSE IF Len(p) >= 3 /\ p[1] = "." /\ p[2] = "*" /\ p[3] = "?"
    THEN <<LazyAny>> \o ParseRegex(SubSeq(p, 4, Len(p)))
    ELSE IF p[1] = "."
    THEN <<AnyChar>> \o ParseRegex(Tail(p))
    ELSE IF p[1] \in {"(", ")"}
    THEN ParseRegex(Tail(p))
    ELSE <<Lit(p[1])>> \o ParseRegex(Tail(p))

\* Whether the characters agree under the flags (re.IGNORECASE or none).
CharEq(a, b, ignorecase) == IF ignorecase THEN Lower(a) = Lower(b) ELSE a = b

IsWordAt(text, j) == j \in 1..Len(text) /\ text[j] \in WordChars

\* \b holds before position i: one neighbour is a word character, one not.
AtBoundary(text, i) == IsWordAt(text, i - 1) # IsWordAt(text, i)

\* The backtracking matcher: the position after the first match (in the
\* engine's order of trying) of the items from k on at position i, 0 if none.
RECURSIVE MatchEnd(_, _, _, _, _)
RECURSIVE LazyEnd(_, _, _, _, _)
RECURSIVE GreedyEnd(_, _, _, _, _, _)
MatchEnd(items, k, text, i, ignorecase) ==
    IF k > Len(items) THEN i
    ELSE CASE items[k].t = "lit" ->
                IF i <= Len(text) /\ CharEq(text[i], items[k].c, ignorecase)
                THEN MatchEnd(items, k + 1, text, i + 1, ignorecase) ELSE 0
           [] items[k].t = "any" ->
                IF i <= Len(text) /\ text[i] # "\n"
                THEN MatchEnd(items, k + 1, text, i + 1, ignorecase) ELSE 0
           [] items[k].t = "wb" ->
                IF AtBoundary(text, i)
                THEN MatchEnd(items, k + 1, text, i, ignorecase) ELSE 0
           [] items[k].t = "lazy" ->
                LazyEnd(items, k, text, i, ignorecase)
           [] items[k].t = "set" ->
                GreedyEnd(items, k, text, i, items[k].max, ignorecase)
           [] items[k].t = "optrest" ->
                LET e == MatchEnd(items, k + 1, text, i, ignorecase)
                IN  IF e # 0 THEN e ELSE i

\* .*? takes as few characters as lets the rest match.
LazyEnd(items, k, text, j, ignorecase) ==
    LET e == MatchEnd(items, k + 1, text, j, ignorecase)
    IN  IF e # 0 THEN e
        ELSE IF j <= Len(text) /\ text[j] # "\n"
        THEN LazyEnd(items, k, text, j + 1, ignorecase)
        ELSE 0

\* [chars]{min,max} takes as many characters, n at most, as lets the rest
\* match.
GreedyEnd(items, k, text, i, n, ignorecase) ==
    IF n < items[k].min THEN 0
    ELSE IF /\ i + n - 1 <= Len(text)
            /\ \A j \in i..(i + n - 1) : text[j] \in items[k].chars
    THEN LET e == MatchEnd(items, k + 1, text, i + n, ignorecase)
         IN  IF e # 0 THEN e
             ELSE GreedyEnd(items, k, text, i, n - 1, ignorecase)
    ELSE GreedyEnd(items, k, text, i, n - 1, ignorecase)

\* The leftmost position from pos on where the items match, 0 if none.
RECURSIVE SearchFrom(_, _, _, _)
SearchFrom(items, text, pos, ignorecase) ==
    IF pos > Len(text) + 1 THEN 0
    ELSE IF MatchEnd(items, 1, text, pos, ignorecase) # 0 THEN pos
    ELSE SearchFrom(items, text, pos + 1, ignorecase)

\* The functions a caller hands over, by what they return for a string.
CallFunction(f, string) ==
    CASE f = "mask" -> <<"x">>
      [] f = "same" -> string
      [] f = "twice" -> string \o string
      [] f = "lower" -> [i \in 1..Len(string) |-> Lower(string[i])]

\* What replaces a match: the replacement string, the mapping function's
\* return value, or the lookup's hit (the match itself when it misses).
Replacement(repl, matched) ==
    CASE repl.kind = "str" -> repl.s
      [] repl.kind = "function" -> CallFunction(repl.f, matched)
      [] repl.kind = "lookup" ->
            IF \E i \in 1..Len(repl.rules) :
                  ~repl.rules[i].key.re /\ repl.rules[i].key.s = matched
            THEN repl.rules[CHOOSE i \in 1..Len(repl.rules) :
                  ~repl.rules[i].key.re /\ repl.rules[i].key.s = matched].value
            ELSE matched

\* re.subn / Pattern.subn: every non-overlapping match from the left is
\* replaced; the new string and the number of replacements.  (The patterns
\* used consume at least one character; an empty match is replaced and the
\* scan moves on by one character.)
RECURSIVE SubNFrom(_, _, _, _, _)
SubNFrom(items, repl, text, pos, ignorecase) ==
    LET s == SearchFrom(items, text, pos, ignorecase)
    IN  IF s = 0
        THEN [string |-> SubSeq(text, pos, Len(text)), n |-> 0]
        ELSE LET e == MatchEnd(items, 1, text, s, ignorecase)
                 new == Replacement(repl, SubSeq(text, s, e - 1))
                 rest == IF e > s
                         THEN SubNFrom(items, repl, text, e, ignorecase)
                         ELSE IF s > Len(text) THEN [string |-> <<>>, n |-> 0]
                         ELSE LET r == SubNFrom(items, repl, text, s + 1, ignorecase)
                              IN  [r EXCEPT !.string = <<text[s]>> \o @]
             IN  [string |-> SubSeq(text, pos, s - 1) \o new \o rest.string,
                  n |-> rest.n + 1]

SubN(pattern, repl, text, ignorecase) ==
    SubNFrom(ParseRegex(pattern), repl, text, 1, ignorecase)

(***************************************************************************)
(* Anonymize: the object, the arguments of its constructor and the last     *)
(* _substitute_ids call.                                                    *)
(***************************************************************************)
\* Bound of the lengths of the keys and texts drawn.
MaxLen == 2
\* Bound of the substitutions counted on one object.
MaxSubs == 2

\* The sort key _reorder_dict gives a compiled pattern (line 366).
RegexRank == 100000

\* A key of the mapping: a str, or a compiled pattern (re.Pattern).
StrKey(s) == [re |-> FALSE, s |-> s]
PatternKey(s) == [re |-> TRUE, s |-> s]
Rule(key, value) == [key |-> key, value |-> value]

\* A function as inspect.signature and a call see it: how many parameters,
\* whether those after the first have defaults, whether it raises.
Function(f, params, defaults, raises) ==
    [callable |-> TRUE, f |-> f, params |-> params, defaults |-> defaults,
     raises |-> raises]
NotCallable == [callable |-> FALSE, f |-> "none", params |-> 0,
                defaults |-> TRUE, raises |-> FALSE]
\* None, where a function may be given.
NoFunction == [callable |-> FALSE, f |-> "None", params |-> 0,
               defaults |-> TRUE, raises |-> FALSE]

NoPattern == [given |-> FALSE, s |-> <<>>]
Pattern(s) == [given |-> TRUE, s |-> s]

\* All sequences over the alphabet with lengths from..to.
RECURSIVE StringsOfLen(_, _)
StringsOfLen(alphabet, n) ==
    IF n = 0 THEN {<<>>}
    ELSE {<<c>> \o s : c \in alphabet, s \in StringsOfLen(alphabet, n - 1)}

Strings(alphabet, from, to) ==
    UNION {StringsOfLen(alphabet, n) : n \in from..to}

(***************************************************************************)
(* The mappings, patterns and texts the model draws.                        *)
(***************************************************************************)
KeyAlphabet == {"a", "."}
TextAlphabet == {"a", "b", "."}

GenericKeys ==
    {StrKey(s) : s \in Strings(KeyAlphabet, 1, MaxLen)}
        \cup {PatternKey(<<"a", ".", "*", "?", "a">>), PatternKey(<<".", "a">>)}
GenericValues == {<<"x">>, <<"a", "x">>}

\* Mappings of one or two rules with distinct keys.
GenericMappings ==
    {<<Rule(k, v)>> : k \in GenericKeys, v \in GenericValues}
        \cup UNION {{<<Rule(k1, v1), Rule(k2, <<"y">>)>> :
                        k2 \in GenericKeys \ {k1}, v1 \in GenericValues} :
                    k1 \in GenericKeys}

\* The mapping of the tests (tests/conftest.py, key_dict and keys.csv).
TestMapping ==
    << Rule(StrKey(<<"J", "a", "n", "e", " ", "D", "o", "e">>),
            <<"a", "a", "a", "a">>),
       Rule(StrKey(<<"A", "m", "s", "t", "e", "r", "d", "a", "m">>),
            <<"b", "b", "b", "b">>),
       Rule(StrKey(<<"j", ".", "d", "o", "e", "@", "g", "m", "a", "i", "l",
                     ".", "c", "o", "m">>),
            <<"c", "c", "c", "c">>),
       Rule(PatternKey(<<"c", "a", ".", "*", "?", "e", "r">>),
            <<"d", "d", "d", "d">>) >>

\* The inputs of the tests (tests/test_substitute_ids.py, ids).
TestIds ==
    << <<"J", "a", "n", "e", " ", "D", "o", "e">>,
       <<"J", "a", "n", "e", "D", "o", "e">>,
       <<"a", "m", "s", "t", "e", "r", "d", "a", "m">>,
       <<"j", ".", "d", "o", "e", "@", "g", "m", "a", "i", "l", ".", "c", "o", "m">>,
       <<"c", "a", "s", "p", "e", "r">>,
       <<"c", "a", "t", "e", "r", "p", "i", "l", "l", "a", "r">> >>

GenericTexts == Strings(TextAlphabet, 0, MaxLen)

\* The texts an object is called with: the inputs of the tests for the
\* mapping of the tests, the generic texts for the others.
TextsFor(a) == IF a.rules = TestMapping THEN Range(TestIds) ELSE GenericTexts

Patterns == {Pattern(<<"a">>), Pattern(<<".", "a">>)}

\* Functions given as mapping or as preprocess_text.
MappingFunctions ==
    { Function("mask", 1, TRUE, FALSE),
      Function("twice", 2, TRUE, FALSE),
      Function("same", 2, FALSE, FALSE),
      Function("mask", 0, TRUE, FALSE),
      Function("mask", 1, TRUE, TRUE) }

PreprocessInputs ==
    { NoFunction, Function("lower", 1, TRUE, FALSE), Function("same", 0, TRUE, FALSE),
      NotCallable }

\* One call of a constructor: the module whose Anonymize is built, what is
\* passed as mapping (kind "dict": rules; kind "path": a table file holding
\* the rules; kind "callable": function; kind "other": neither), and the
\* options ("default": not given).
CtorArgs(module, kind, rules, function, pattern, ignorecase, uwb, preprocess) ==
    [module |-> module, kind |-> kind, rules |-> rules, function |-> function,
     pattern |-> pattern, ignorecase |-> ignorecase,
     use_word_boundaries |-> uwb, preprocess_text |-> preprocess]

BoundaryOptions == {"default", "True", "False"}

AnonymouusInputs ==
    {CtorArgs("anonymouus", kind, rules, NoFunction, pattern, FALSE, uwb, pre) :
        kind \in {"dict", "path"}, rules \in GenericMappings,
        pattern \in {NoPattern} \cup Patterns,
        uwb \in BoundaryOptions, pre \in PreprocessInputs}
    \cup
    {CtorArgs("anonymouus", kind, TestMapping, NoFunction, NoPattern, ic, uwb, pre) :
        kind \in {"dict", "path"}, ic \in BOOLEAN,
        uwb \in BoundaryOptions, pre \in PreprocessInputs}
    \cup
    {CtorArgs("anonymouus", "callable", <<>>, f, pattern, FALSE, "default", pre) :
        f \in MappingFunctions, pattern \in {NoPattern} \cup Patterns,
        pre \in PreprocessInputs}
    \cup
    {CtorArgs("anonymouus", "other", <<>>, NotCallable, pattern, FALSE, "default",
              NoFunction) : pattern \in {NoPattern} \cup Patterns}

UunonymousInputs ==
    {CtorArgs("uunonymous", kind, rules, NoFunction, NoPattern, FALSE, uwb, NoFunction) :
        kind \in {"dict", "path"}, rules \in GenericMappings,
        uwb \in BoundaryOptions}
    \cup
    {CtorArgs("uunonymous", kind, TestMapping, NoFunction, NoPattern, ic, uwb, NoFunction) :
        kind \in {"dict", "path"}, ic \in BOOLEAN, uwb \in BoundaryOptions}
    \cup
    {CtorArgs("uunonymous", "dict", <<Rule(StrKey(<<"a">>), <<"x">>)>>, NoFunction,
              pattern, FALSE, uwb, NoFunction) :
        pattern \in Patterns, uwb \in BoundaryOptions}

(***************************************************************************)
(* The mapping as an ordered dictionary: a sequence of rules, keys unique.  *)
(***************************************************************************)
HasKey(mapping, key) == \E i \in 1..Len(mapping) : mapping[i].key = key

\* dict(pairs) / OrderedDict(pairs): a key that comes again keeps its place
\* and takes the later value.
RECURSIVE DictOf(_, _)
DictOf(done, pairs) ==
    IF pairs = <<>> THEN done
    ELSE LET p == Head(pairs)
         IN  IF HasKey(done, p.key)
             THEN DictOf([i \in 1..Len(done) |->
                             IF done[i].key = p.key THEN p ELSE done[i]],
                         Tail(pairs))
             ELSE DictOf(Append(done, p), Tail(pairs))

\* The table file that holds the rules: per row the two cells, the key with
\* the marker r# when it is a regular expression, blanks around the values.
TableOf(rules) ==
    [i \in 1..Len(rules) |->
        << <<" ">> \o (IF rules[i].key.re THEN <<"r", "#">> ELSE <<>>)
                   \o rules[i].key.s,
           rules[i].value \o <<" ">> >>]

\* process_key_value_pair (anonymouus.py lines 336-349, uunonymous.py 71-84)
ProcessKeyValuePair(row) ==
    LET key == Strip(row[1])
        value == Strip(row[2])
    IN  IF StartsWith(key, <<"r", "#">>)
        THEN Rule(PatternKey(SubSeq(key, 3, Len(key))), value)
        ELSE Rule(StrKey(Escape(key)), value)

\* uunonymous.py _convert_csv_to_dict (lines 65-92): the reader is read while
\* its file is open.
ConvertCsvToDictLegacy(table) ==
    DictOf(<<>>, [i \in 1..Len(table) |-> ProcessKeyValuePair(table[i])])

\* anonymouus.py _convert_csv_to_dict (lines 327-359): the with block of
\* lines 352-354 has closed the file when line 356 first reads the reader,
\* which raises ValueError (I/O operation on closed file).
ConvertCsvToDict(table) == [error |-> "ValueError", mapping |-> <<>>]

\* key=lambda t: len(t[0]) if isinstance(t[0], str) else 100000 (line 366)
SortKey(rule) == IF rule.key.re THEN RegexRank ELSE Len(rule.key.s)

\* sorted(..., reverse=True) is stable: a rule goes behind the rules whose
\* sort key is as large as its own.
RECURSIVE InsertDescending(_, _)
InsertDescending(sorted, rule) ==
    IF sorted = <<>> THEN <<rule>>
    ELSE IF SortKey(Head(sorted)) >= SortKey(rule)
    THEN <<Head(sorted)>> \o InsertDescending(Tail(sorted), rule)
    ELSE <<rule>> \o sorted

RECURSIVE SortedDescending(_, _)
SortedDescending(sorted, rules) ==
    IF rules = <<>> THEN sorted
    ELSE SortedDescending(InsertDescending(sorted, Head(rules)), Tail(rules))

\* _reorder_dict (anonymouus.py lines 361-369, uunonymous.py lines 95-103)
ReorderDict(mapping) == SortedDescending(<<>>, mapping)

\* r'\b{}\b'.format(text)
Bounded(text) == <<Backslash, "b">> \o text \o <<Backslash, "b">>

\* str(pattern) of a compiled pattern, as str.format renders it
PatternRepr(s) ==
    <<"r", "e", ".", "c", "o", "m", "p", "i", "l", "e", "(", "'">> \o s \o <<"'", ")">>

\* anonymouus.py lines 206-214: a str key is wrapped as text, a compiled
\* pattern is compiled again from its wrapped pattern text.
AddWordBoundaries(mapping) ==
    DictOf(<<>>, [i \in 1..Len(mapping) |->
        Rule(IF mapping[i].key.re
             THEN PatternKey(Bounded(mapping[i].key.s))
             ELSE StrKey(Bounded(mapping[i].key.s)),
             mapping[i].value)])

\* uunonymous.py lines 51-55: every key is formatted into the wrapped text,
\* a compiled pattern by its str().
AddWordBoundariesLegacy(mapping) ==
    DictOf(<<>>, [i \in 1..Len(mapping) |->
        Rule(StrKey(Bounded(IF mapping[i].key.re
                            THEN PatternRepr(mapping[i].key.s)
                            ELSE mapping[i].key.s)),
             mapping[i].value)])

(***************************************************************************)
(* The object.                                                              *)
(***************************************************************************)
NoStats == [subs_made |-> 0, subs_grand_total |-> 0]

\* No object: the constructor was not called, or raised.
NoObject ==
    [module |-> "none", built |-> "none", mapping |-> <<>>,
     mapping_is_function |-> FALSE, function |-> NoFunction,
     pattern |-> NoPattern, ignorecase |-> FALSE, use_word_boundaries |-> FALSE,
     has_preprocess_text |-> FALSE, preprocess_text |-> NoFunction,
     copy |-> FALSE, stats |-> NoStats]

Raised(module, error) == [NoObject EXCEPT !.module = module, !.built = error]

NoArgs == CtorArgs("none", "none", <<>>, NoFunction, NoPattern, FALSE, "default",
                   NoFunction)

NoCall == [text |-> <<>>, outcome |-> "none", result |-> <<>>, subs |-> 0,
           statsBefore |-> NoStats]

AnonInit ==
    /\ obj = NoObject
    /\ args = NoArgs
    /\ call = NoCall

\* _check_callable (lines 763-782): TRUE, or the error it raises
CheckCallable(function) ==
    IF ~function.callable THEN "ValueError"
    ELSE IF function.params = 0 THEN "ValueError"
    ELSE IF function.params > 1 /\ ~function.defaults THEN "ValueError"
    ELSE "True"

\* The value the type tests of lines 152-160 look at: self.mapping, which
\* line 146 has just set to None -- not the argument.
TestedMapping(a) == "None"

\* use_word_boundaries: bool = True (line 115)
BoundariesDefault == TRUE
\* use_word_boundaries: bool=False (uunonymous.py line 18)
BoundariesDefaultLegacy == FALSE

UseWordBoundaries(option, default) ==
    IF option = "default" THEN default ELSE option = "True"

\* Anonymize.__init__ of anonymouus.py (lines 110-235): the object built, or
\* the error raised.
AnonymizeInit(a) ==
    LET preprocess == IF a.preprocess_text = NoFunction THEN "None"
                      ELSE CheckCallable(a.preprocess_text)
        base == [NoObject EXCEPT
                    !.module = "anonymouus", !.built = "ok",
                    !.ignorecase = a.ignorecase,
                    !.use_word_boundaries =
                        UseWordBoundaries(a.use_word_boundaries, BoundariesDefault),
                    !.has_preprocess_text = (preprocess = "True"),
                    !.preprocess_text = IF preprocess = "True"
                                        THEN a.preprocess_text ELSE NoFunction]
        tested == TestedMapping(a)
        \* lines 152-182
        mapped ==
            IF tested = "dict"
            THEN [base EXCEPT !.mapping = DictOf(<<>>, a.rules)]
            ELSE IF tested = "path"
            THEN LET read == ConvertCsvToDict(TableOf(a.rules))
                 IN  IF read.error # "none" THEN Raised("anonymouus", read.error)
                     ELSE [base EXCEPT !.mapping = read.mapping]
            ELSE IF a.kind = "callable"
            THEN IF ~a.pattern.given THEN Raised("anonymouus", "ValueError")
                 ELSE [base EXCEPT !.mapping_is_function = TRUE,
                                   !.function = a.function]
            ELSE Raised("anonymouus", "TypeError")
    IN  IF preprocess = "ValueError" THEN Raised("anonymouus", "ValueError")
        ELSE IF mapped.built # "ok" THEN mapped
        \* lines 184-214
        ELSE IF a.pattern.given THEN [mapped EXCEPT !.pattern = a.pattern]
        ELSE IF mapped.mapping_is_function THEN mapped
        ELSE LET ordered == ReorderDict(mapped.mapping)
             IN  [mapped EXCEPT !.mapping =
                     IF mapped.use_word_boundaries
                     THEN AddWordBoundaries(ordered) ELSE ordered]

\* Anonymize.__init__ of uunonymous.py (lines 13-61), given a dictionary or
\* the path of a table.
AnonymizeInitLegacy(a) ==
    LET uwb == UseWordBoundaries(a.use_word_boundaries, BoundariesDefaultLegacy)
        dict == IF a.kind = "dict" THEN DictOf(<<>>, a.rules)
                ELSE ConvertCsvToDictLegacy(TableOf(a.rules))
        base == [NoObject EXCEPT
                    !.module = "uunonymous", !.built = "ok",
                    !.ignorecase = a.ignorecase,
                    !.use_word_boundaries = uwb]
    IN  IF a.pattern.given
        THEN [base EXCEPT !.mapping = dict,
                          !.pattern = IF uwb THEN Pattern(Bounded(a.pattern.s))
                                      ELSE a.pattern]
        ELSE LET ordered == ReorderDict(dict)
             IN  [base EXCEPT !.mapping =
                     IF uwb THEN AddWordBoundariesLegacy(ordered) ELSE ordered]

\* Anonymize(...) of anonymouus.py
Construct ==
    /\ obj = NoObject
    /\ args = NoArgs
    /\ \E a \in AnonymouusInputs :
          /\ obj' = AnonymizeInit(a)
          /\ args' = a
    /\ UNCHANGED <<call, regVars, dateVars, treeVars>>

\* Anonymize(...) of uunonymous.py
ConstructLegacy ==
    /\ obj = NoObject
    /\ args = NoArgs
    /\ \E a \in UunonymousInputs :
          /\ obj' = AnonymizeInitLegacy(a)
          /\ args' = a
    /\ UNCHANGED <<call, regVars, dateVars, treeVars>>

(***************************************************************************)
(* _substitute_ids (anonymouus.py lines 686-729, uunonymous.py 278-302)     *)
(***************************************************************************)
\* Whether the call function(string) fits the function's signature: one
\* positional argument is passed, and no keyword arguments.
Fits(function) ==
    /\ function.callable
    /\ function.params >= 1
    /\ function.params = 1 \/ function.defaults

\* Whether function(string) returns: the call fits (TypeError otherwise)
\* and the body raises nothing.
Accepts(function) == Fits(function) /\ ~function.raises

\* The loop of lines 700-705 (uunonymous.py 288-291): rule after rule, each
\* applied to what the rules before it left; subs adds up what subn reports.
RECURSIVE ApplyRules(_, _, _)
ApplyRules(rules, string, ignorecase) ==
    IF rules = <<>> THEN [string |-> string, n |-> 0]
    ELSE LET r == SubN(Head(rules).key.s,
                       [kind |-> "str", s |-> Head(rules).value],
                       string, ignorecase)
             rest == ApplyRules(Tail(rules), r.string, ignorecase)
         IN  [string |-> rest.string, n |-> r.n + rest.n]

\* The branches of lines 694-723 on the string as preprocessed.
SubstituteBranches(o, string) ==
    IF ~o.pattern.given
    THEN LET r == ApplyRules(o.mapping, string, o.ignorecase)
         IN  [outcome |-> "ok", result |-> r.string, subs |-> r.n]
    ELSE IF o.mapping_is_function
    THEN IF /\ SearchFrom(ParseRegex(o.pattern.s), string, 1, o.ignorecase) # 0
            /\ ~Accepts(o.function)
         THEN [outcome |-> IF Fits(o.function) THEN "Exception" ELSE "TypeError",
               result |-> <<>>, subs |-> 0]
         ELSE LET r == SubN(o.pattern.s, [kind |-> "function", f |-> o.function.f],
                            string, o.ignorecase)
              IN  [outcome |-> "ok", result |-> r.string, subs |-> r.n]
    ELSE LET r == SubN(o.pattern.s, [kind |-> "lookup", rules |-> o.mapping],
                       string, o.ignorecase)
         IN  [outcome |-> "ok", result |-> r.string, subs |-> r.n]

\* _substitute_ids of anonymouus.py: line 691 reads self.preprocess_text,
\* which __init__ sets only when a function was given (lines 143-144).
SubstituteIdsOf(o, string) ==
    IF ~o.has_preprocess_text
    THEN [outcome |-> "AttributeError", result |-> <<>>, subs |-> 0]
    ELSE SubstituteBranches(o, CallFunction(o.preprocess_text.f, string))

\* _substitute_ids of uunonymous.py: no preprocessing, nothing counted.
SubstituteIdsLegacyOf(o, string) == SubstituteBranches(o, string)

\* _update_subs_count (lines 727-729)
UpdateSubsCount(stats, num) ==
    [subs_made |-> stats.subs_made + num,
     subs_grand_total |-> stats.subs_grand_total + num]

SubstituteIds ==
    /\ obj.built = "ok"
    /\ obj.module = "anonymouus"
    /\ obj.stats.subs_grand_total < MaxSubs
    /\ \E string \in TextsFor(args) :
          LET r == SubstituteIdsOf(obj, string)
          IN  /\ obj' = [obj EXCEPT !.stats = UpdateSubsCount(@, r.subs)]
              /\ call' = [text |-> string, outcome |-> r.outcome,
                          result |-> r.result, subs |-> r.subs,
                          statsBefore |-> obj.stats]
    /\ UNCHANGED <<args, regVars, dateVars, treeVars>>

SubstituteIdsLegacy ==
    /\ obj.built = "ok"
    /\ obj.module = "uunonymous"
    \* the call reads the object and changes nothing: every call is the
    \* first call, so one call of an object is followed
    /\ call = NoCall
    /\ \E string \in TextsFor(args) :
          LET r == SubstituteIdsLegacyOf(obj, string)
          IN  call' = [text |-> string, outcome |-> r.outcome,
                       result |-> r.result, subs |-> r.subs,
                       statsBefore |-> obj.stats]
    /\ UNCHANGED <<obj, args, regVars, dateVars, treeVars>>

(***************************************************************************)
(* Date redaction: DateReplacer (date_replacer.py) and DateHandler          *)
(* (date_handler.py).                                                       *)
(***************************************************************************)
\* Bound of the custom patterns added to one pattern list.
MaxCustom == 1

\* The two classes of redactor.
Classes == {"DateReplacer", "DateHandler"}

DigitChars == <<"0", "1", "2", "3", "4", "5", "6", "7", "8", "9">>
WhiteSpace == {" ", "\t", "\n", "\r"}

\* (\d){n}
Dig(n) == CharSet(Digits, n, n)
\* [-/]{1}
Sep == CharSet({"-", "/"}, 1, 1)
\* [-/\\]{1}
SepBackslash == CharSet({"-", "/", Backslash}, 1, 1)

\* A (pattern, replacement) pair; the pattern by its name and as compiled.
DatePattern(name, items, replacement) ==
    [pattern |-> name, items |-> items, replacement |-> replacement]

StrReplacement(s) == [kind |-> "str", s |-> s]
FunctionReplacement(f) == [kind |-> "function", f |-> f]
\* A replacement that is neither a str nor callable.
OtherReplacement == [kind |-> "other"]

\* default_patterns (date_replacer.py lines 6-16, date_handler.py 12-22)
DefaultPatterns ==
    << DatePattern("timestamp",
           <<Dig(4), Sep, Dig(2), Sep, Dig(2), CharSet({"T"} \cup WhiteSpace, 1, 1),
             Dig(2), Lit(":"), Dig(2), Lit(":"), Dig(2),
             OptionalRest, Lit("."), Dig(3)>>,
           StrReplacement(<<"1", "9", "7", "0", "-", "0", "1", "-", "0", "1", "T", "0", "0", ":", "0", "0", ":", "0", "0">>)),
       DatePattern("ymd", <<Dig(4), Sep, Dig(2), Sep, Dig(2)>>,
           StrReplacement(<<"1", "9", "7", "0", "-", "0", "1", "-", "0", "1">>)),
       DatePattern("dmy",
           <<CharSet(Digits, 1, 2), SepBackslash, CharSet(Digits, 1, 2),
             SepBackslash, Dig(4)>>,
           StrReplacement(<<"0", "1", "-", "0", "1", "-", "1", "9", "7", "0">>)),
       DatePattern("compact", <<Dig(8), CharSet({"_"}, 0, 1), Dig(4)>>,
           StrReplacement(<<"1", "9", "7", "0", "0", "1", "0", "1", "_", "0", "0", "0", "0">>)),
       DatePattern("compactT", <<Dig(8), Lit("T"), Dig(6)>>,
           StrReplacement(<<"1", "9", "7", "0", "0", "1", "0", "1", "T", "0", "0", "0", "0", "0", "0">>)),
       DatePattern("dotted",
           <<Dig(2), Lit("."), Dig(2), Lit("."), Dig(4), CharSet(WhiteSpace, 1, 1),
             Dig(2), Lit(":"), Dig(2), Lit(":"), Dig(2)>>,
           StrReplacement(<<"0", "1", ".", "0", "1", ".", "1", "9", "7", "0", " ", "0", "0", ":", "0", "0", ":", "0", "0">>)) >>

\* What add_pattern is called with: the pattern (compilable or not) and the
\* replacement.
AddInputs ==
    { [compiles |-> TRUE,
       pair |-> DatePattern("x", <<Lit("x")>>, StrReplacement(<<"y", "y">>))],
      [compiles |-> TRUE,
       pair |-> DatePattern("x", <<Lit("x")>>, FunctionReplacement("twice"))],
      [compiles |-> TRUE,
       pair |-> DatePattern("x", <<Lit("x")>>, OtherReplacement)],
      [compiles |-> FALSE,
       pair |-> DatePattern("(", <<>>, StrReplacement(<<"y">>))] }

\* The texts replace is called with.
DateTexts ==
    { <<>>,
      <<"9", "9", "/", "9", "9", "/", "9", "9", "9", "9">>,
      <<"1", "/", "2", "/", "2", "0", "2", "0">>,
      <<"1", "/", "2", "/", "2", "0", "2", "0", " ", "3", "/", "4", "/", "2", "0", "2", "1">>,
      <<"1", "/", "2", "/", "2", "0", "2", "0", " ", "9", "9", "/", "9", "9", "/", "9", "9", "9", "9">>,
      <<"2", "0", "2", "0", "-", "0", "1", "-", "0", "2", " ", "2", "0", "2", "1", "-", "0", "3", "-", "0", "4">>,
      <<"x", " ", "1", "/", "2", "/", "2", "0", "2", "0", " ", "x">>,
      <<"n", "o">> }

\* The int of a digit character.
DigitValue(c) == (CHOOSE n \in 1..10 : DigitChars[n] = c) - 1

\* int(s) of a string of digits
RECURSIVE IntOf(_)
IntOf(s) ==
    IF s = <<>> THEN 0 ELSE 10 * IntOf(SubSeq(s, 1, Len(s) - 1)) + DigitValue(s[Len(s)])

\* The runs of digits of a string, in order.
RECURSIVE DigitRuns(_, _)
DigitRuns(s, run) ==
    IF s = <<>> THEN (IF run = <<>> THEN <<>> ELSE <<run>>)
    ELSE IF Head(s) \in Digits THEN DigitRuns(Tail(s), Append(run, Head(s)))
    ELSE (IF run = <<>> THEN <<>> ELSE <<run>>) \o DigitRuns(Tail(s), <<>>)

IsMonthDay(month, day) == month \in 1..12 /\ day \in 1..31

FullMatch(items, s) == MatchEnd(items, 1, s, 1, FALSE) = Len(s) + 1

\* dateutil.parser.parse(datestr) (line 49): whether it returns (TRUE) or
\* raises (FALSE).  For a string of the shape day-month-year or
\* year-month-day the numbers decide (either order of day and month is
\* tried); for any other string both outcomes are allowed for.
ParseOutcomes(datestr) ==
    LET runs == DigitRuns(datestr, <<>>)
    IN  IF FullMatch(DefaultPatterns[3].items, datestr)
        THEN {IsMonthDay(IntOf(runs[1]), IntOf(runs[2]))
                \/ IsMonthDay(IntOf(runs[2]), IntOf(runs[1]))}
        ELSE IF FullMatch(DefaultPatterns[2].items, datestr)
        THEN {IsMonthDay(IntOf(runs[2]), IntOf(runs[3]))}
        ELSE BOOLEAN

\* str.replace("_", " ")
UnderscoresToSpaces(s) == [i \in 1..Len(s) |-> IF s[i] = "_" THEN " " ELSE s[i]]

\* re.finditer(pattern, string): the spans of the matches from the left, not
\* overlapping, as <<start, end>> with the characters start..end-1 (from 1).
RECURSIVE SpansFrom(_, _, _)
SpansFrom(items, text, pos) ==
    LET s == SearchFrom(items, text, pos, FALSE)
    IN  IF s = 0 THEN <<>>
        ELSE LET end == MatchEnd(items, 1, text, s, FALSE)
             IN  << <<s, end>> >>
                    \o (IF end > Len(text) THEN <<>>
                        ELSE SpansFrom(items, text, IF end > s THEN end ELSE s + 1))

\* string[a:b] of Python, which cuts a slice off at the end of the string
Slice(string, start, end) ==
    SubSeq(string, start, IF end - 1 <= Len(string) THEN end - 1 ELSE Len(string))

\* The inner loop of lines 45-55: the spans are those of the string as it
\* was when finditer was called; datestr is cut from, and the replacement
\* put into, the string as it is now.  The set of the strings it can
\* leave, with the number of replacements made.
RECURSIVE SpanLoop(_, _, _, _)
SpanLoop(cur, spans, pair, invalidToo) ==
    IF spans = <<>> THEN {cur}
    ELSE LET start == Head(spans)[1]
             end == Head(spans)[2]
             datestr == Slice(cur.string, start, end)
             replaced ==
                 [string |-> Slice(cur.string, 1, start)
                               \o Replacement(pair.replacement, datestr)
                               \o SubSeq(cur.string, end, Len(cur.string)),
                  n |-> cur.n + 1]
             parsed == IF invalidToo THEN {TRUE}
                       ELSE ParseOutcomes(UnderscoresToSpaces(datestr))
         IN  UNION { SpanLoop(IF ok THEN replaced ELSE cur, Tail(spans), pair,
                              invalidToo) : ok \in parsed }

\* The outer loop of line 44 over the pattern list.
RECURSIVE PatternLoop(_, _, _)
PatternLoop(curs, patterns, invalidToo) ==
    IF patterns = <<>> THEN curs
    ELSE PatternLoop(
             UNION { SpanLoop(cur, SpansFrom(Head(patterns).items, cur.string, 1),
                              Head(patterns), invalidToo) : cur \in curs },
             Tail(patterns), invalidToo)

\* DateReplacer.replace (lines 41-57), DateHandler.replace_dates (41-58)
ReplaceOutcomes(patterns, string, invalidToo) ==
    PatternLoop({[string |-> string, n |-> 0]}, patterns, invalidToo)

\* A redactor after __init__ (lines 18-23): the flag as given, and patterns
\* the default list itself (reset_patterns, line 33), not a copy of it.
NewRedactor(class, state) ==
    [class |-> class, aliased |-> TRUE, own |-> <<>>,
     replace_invalid_dates |-> state, replacements_made |-> 0]

NoDateCall ==
    [name |-> "none", outcome |-> "none", string |-> <<>>, result |-> <<>>,
     n |-> 0, before |-> <<>>]

DateInit ==
    /\ default_patterns = DefaultPatterns
    /\ redactor = NewRedactor("DateReplacer", FALSE)
    /\ dcall = NoDateCall

\* self.patterns: the list the attribute refers to
SelfPatterns ==
    IF redactor.aliased THEN default_patterns ELSE redactor.own

\* The custom patterns there is still room for in the list add_pattern
\* appends to.
RoomForCustom ==
    IF redactor.aliased THEN Len(default_patterns) < Len(DefaultPatterns) + MaxCustom
    ELSE Len(redactor.own) < MaxCustom

\* set_replace_invalid_dates (lines 25-27)
SetReplaceInvalidDates(state) ==
    /\ redactor' = [redactor EXCEPT !.replace_invalid_dates = state]
    /\ dcall' = [NoDateCall EXCEPT !.name = "set_replace_invalid_dates",
                                   !.outcome = "ok", !.before = SelfPatterns]
    /\ UNCHANGED <<default_patterns, regVars, anonVars, treeVars>>

\* clear_patterns (lines 29-30): a new, empty list
ClearPatterns ==
    /\ redactor' = [redactor EXCEPT !.aliased = FALSE, !.own = <<>>]
    /\ dcall' = [NoDateCall EXCEPT !.name = "clear_patterns", !.outcome = "ok",
                                   !.before = SelfPatterns]
    /\ UNCHANGED <<default_patterns, regVars, anonVars, treeVars>>

\* reset_patterns (lines 32-33): self.patterns = self.default_patterns
ResetPatterns ==
    /\ redactor' = [redactor EXCEPT !.aliased = TRUE, !.own = <<>>]
    /\ dcall' = [NoDateCall EXCEPT !.name = "reset_patterns", !.outcome = "ok",
                                   !.before = SelfPatterns]
    /\ UNCHANGED <<default_patterns, regVars, anonVars, treeVars>>

\* The replacement passes the assert of add_pattern: str or callable for a
\* DateReplacer (line 37), str for a DateHandler (line 38).
ReplacementAccepted(class, replacement) ==
    \/ replacement.kind = "str"
    \/ replacement.kind = "function" /\ class = "DateReplacer"

\* add_pattern (lines 35-39): appends to the list self.patterns refers to
AddPattern ==
    /\ RoomForCustom
    /\ \E input \in AddInputs :
        LET done == [NoDateCall EXCEPT !.name = "add_pattern", !.before = SelfPatterns]
        IN  IF ~input.compiles
            THEN /\ dcall' = [done EXCEPT !.outcome = "re.error"]
                 /\ UNCHANGED <<default_patterns, redactor>>
            ELSE IF ~ReplacementAccepted(redactor.class, input.pair.replacement)
            THEN /\ dcall' = [done EXCEPT !.outcome = "AssertionError"]
                 /\ UNCHANGED <<default_patterns, redactor>>
            ELSE /\ dcall' = [done EXCEPT !.outcome = "ok"]
                 /\ IF redactor.aliased
                    THEN /\ default_patterns' = Append(default_patterns, input.pair)
                         /\ UNCHANGED redactor
                    ELSE /\ redactor' = [redactor EXCEPT !.own = Append(@, input.pair)]
                         /\ UNCHANGED default_patterns
    /\ UNCHANGED <<regVars, anonVars, treeVars>>

\* replace / replace_dates; a DateHandler counts its replacements (line 56)
Replace ==
    /\ redactor.replacements_made < MaxSubs
    /\ \E string \in DateTexts :
        \E out \in ReplaceOutcomes(SelfPatterns, string, redactor.replace_invalid_dates) :
          /\ dcall' = [name |-> "replace", outcome |-> "ok", string |-> string,
                       result |-> out.string, n |-> out.n, before |-> SelfPatterns]
          /\ redactor' = IF redactor.class = "DateHandler"
                         THEN [redactor EXCEPT !.replacements_made = @ + out.n]
                         ELSE redactor
    /\ UNCHANGED <<default_patterns, regVars, anonVars, treeVars>>

(***************************************************************************)
(* The file tree and Anonymize.substitute (anonymouus.py lines 267-314).    *)
(* A path is the sequence of its names from the root, a name is a text.     *)
(* The names here have no suffix, so every file is one that _process_file   *)
(* hands to _process_unknown_file_type (line 425).                          *)
(***************************************************************************)
\* Bound of the nesting of _traverse_tree calls: the interpreter's recursion
\* limit.
MaxDepth == 4

\* Bound of the substitute calls made on one object.
MaxCalls == 2

\* self.session_id (lines 129-130)
SessionId == <<"s">>

\* The name ".."
ParentDir == <<".", ".">>

\* target_path is None
NoPath == << <<>> >>

Dir(path) == [path |-> path, kind |-> "dir", data |-> <<>>]
File(path, data) == [path |-> path, kind |-> "file", data |-> data]

\* The name "a.txt"
TextFileName == <<"a", ".", "t", "x", "t">>

\* The tree substitute is first called on: a folder d with the file a, an
\* empty folder t, a file f and a text file a.txt.
InitialTree ==
    { Dir(<< <<"d">> >>), File(<< <<"d">>, <<"a">> >>, <<"a">>),
      Dir(<< <<"t">> >>), File(<< <<"f">> >>, <<"a">>),
      File(<< TextFileName >>, <<"a">>) }

\* The arguments of substitute: the folder, its file, the two files beside
\* it and a path that does not exist; no target, the folder t, the file f,
\* the folder d itself, a new folder inside d, and d by way of t/.. .
SourcePaths ==
    { << <<"d">> >>, << <<"d">>, <<"a">> >>, << <<"f">> >>, << TextFileName >>,
      << <<"n">> >> }

TargetPaths ==
    { NoPath, << <<"t">> >>, << <<"f">> >>, << <<"d">> >>,
      << <<"d">>, <<"u">> >>, << <<"t">>, ParentDir, <<"d">> >> }

\* What was given as date_replacer: nothing (the attribute is not set, line
\* 226), a function such as the bound method DateReplacer().replace, or a
\* callable object with a replacements_made attribute.
DateReplacerInputs == {"unset", "function", "object"}

\* The constructor calls whose object substitute is called on.
SubstituteObjects ==
    {CtorArgs("anonymouus", "callable", <<>>, Function("mask", 1, TRUE, FALSE),
              Pattern(<<"a">>), FALSE, "default", pre) :
        pre \in {NoFunction, Function("lower", 1, TRUE, FALSE)}}

\* The file the operating system finds at a path: ".." steps back.
RECURSIVE Resolve(_)
Resolve(path) ==
    IF path = <<>> THEN <<>>
    ELSE LET front == Resolve(SubSeq(path, 1, Len(path) - 1))
             last == path[Len(path)]
         IN  IF last # ParentDir THEN Append(front, last)
             ELSE IF front = <<>> THEN <<>>
             ELSE SubSeq(front, 1, Len(front) - 1)

NodesAt(files, path) == {n \in files : n.path = Resolve(path)}

\* Path.exists(), Path.is_file(), Path.is_dir()
Exists(files, path) == Resolve(path) = <<>> \/ NodesAt(files, path) # {}
IsFileAt(files, path) == \E n \in NodesAt(files, path) : n.kind = "file"
IsDirAt(files, path) ==
    Resolve(path) = <<>> \/ \E n \in NodesAt(files, path) : n.kind = "dir"

\* Path.parents, Path.parent
Parents(path) == {SubSeq(path, 1, k) : k \in 0..(Len(path) - 1)}
Parent(path) == SubSeq(path, 1, Len(path) - 1)

Prefixes(path) == {SubSeq(path, 1, k) : k \in 1..Len(path)}
IsPrefix(p, q) == Len(p) <= Len(q) /\ SubSeq(q, 1, Len(p)) = p

\* The nodes at and below a resolved path.
Under(files, path) == {n \in files : IsPrefix(path, n.path)}

\* Path.iterdir(): the children, as paths joined to the path given
IterDir(files, path) ==
    {Append(path, n.path[Len(n.path)]) :
        n \in {m \in files : /\ Len(m.path) = Len(Resolve(path)) + 1
                             /\ IsPrefix(Resolve(path), m.path)}}

\* _make_dir (lines 737-738): path.mkdir(parents=True, exist_ok=True)
MakeDir(files, path) ==
    LET resolved == Resolve(path)
    IN  IF IsFileAt(files, resolved)
        THEN [tree |-> files, outcome |-> "FileExistsError"]
        ELSE IF \E q \in Prefixes(resolved) : IsFileAt(files, q)
        THEN [tree |-> files, outcome |-> "NotADirectoryError"]
        ELSE [tree |-> files \cup {Dir(q) : q \in {p \in Prefixes(resolved) :
                                                      ~Exists(files, p)}},
              outcome |-> "ok"]

\* _rename_file_or_folder (lines 756-757): source.replace(target)
RenameFileOrFolder(files, source, target) ==
    LET from == Resolve(source)
        to == Resolve(target)
        moved == {[n EXCEPT !.path = to \o SubSeq(n.path, Len(from) + 1, Len(n.path))] :
                     n \in Under(files, from)}
    IN  IF ~Exists(files, from) \/ ~Exists(files, Parent(to))
        THEN [tree |-> files, outcome |-> "FileNotFoundError"]
        ELSE IF from = to THEN [tree |-> files, outcome |-> "ok"]
        ELSE IF \/ ~IsDirAt(files, Parent(to))
                \/ IsDirAt(files, from) /\ IsFileAt(files, to)
        THEN [tree |-> files, outcome |-> "NotADirectoryError"]
        ELSE IF IsFileAt(files, from) /\ IsDirAt(files, to)
        THEN [tree |-> files, outcome |-> "IsADirectoryError"]
        ELSE IF \/ IsPrefix(from, to)
                \/ IsDirAt(files, to) /\ Under(files, to) # NodesAt(files, to)
        THEN [tree |-> files, outcome |-> "OSError"]
        ELSE [tree |-> ((files \ Under(files, from)) \ Under(files, to)) \cup moved,
              outcome |-> "ok"]

\* _copy_file (lines 759-761): shutil.copy unless the two paths are equal
CopyFile(files, source, target) ==
    LET from == Resolve(source)
        to == IF IsDirAt(files, target)
              THEN Append(Resolve(target), from[Len(from)])
              ELSE Resolve(target)
        data == (CHOOSE n \in files : n.path = from).data
    IN  IF source = target THEN [tree |-> files, outcome |-> "ok"]
        ELSE IF from = to THEN [tree |-> files, outcome |-> "SameFileError"]
        ELSE IF IsDirAt(files, to) THEN [tree |-> files, outcome |-> "IsADirectoryError"]
        ELSE IF ~IsDirAt(files, Parent(to))
        THEN [tree |-> files, outcome |-> "FileNotFoundError"]
        ELSE [tree |-> (files \ NodesAt(files, to)) \cup {File(to, data)},
              outcome |-> "ok"]

\* The state of a substitute call under way: the tree, the object, and
\* "ok" or the error raised.
Raise(st, error) == [st EXCEPT !.outcome = error]

\* _substitute_dates (lines 731-734): reading self.date_replacer raises when
\* none was given; otherwise the date replacer's results.
SubstituteDates(string) ==
    IF date_replacer = "unset" THEN {[outcome |-> "AttributeError", result |-> <<>>]}
    ELSE {[outcome |-> "ok", result |-> out.string] :
             out \in ReplaceOutcomes(DefaultPatterns, string, FALSE)}

\* Path.suffix: the name from its last dot on, when that dot is not the
\* first character
Suffix(name) ==
    LET dots == {i \in 1..Len(name) : name[i] = "."}
        last == IF dots = {} THEN 0
                ELSE CHOOSE i \in dots : \A j \in dots : j <= i
    IN  IF last <= 1 THEN <<>> ELSE SubSeq(name, last, Len(name))

\* Path.with_suffix('.copy' + suffix)
WithCopySuffix(name) ==
    SubSeq(name, 1, Len(name) - Len(Suffix(name)))
        \o <<".", "c", "o", "p", "y">> \o Suffix(name)

\* _remove_file (lines 750-751): path.unlink()
RemoveFile(files, path) ==
    IF ~Exists(files, path) THEN [tree |-> files, outcome |-> "FileNotFoundError"]
    ELSE IF IsDirAt(files, path) THEN [tree |-> files, outcome |-> "IsADirectoryError"]
    ELSE [tree |-> files \ NodesAt(files, path), outcome |-> "ok"]

\* _write_file (lines 745-748): open(path, 'w') and writelines
WriteFile(files, path, contents) ==
    LET to == Resolve(path)
    IN  IF IsDirAt(files, to) THEN [tree |-> files, outcome |-> "IsADirectoryError"]
        ELSE IF IsFileAt(files, Parent(to))
        THEN [tree |-> files, outcome |-> "NotADirectoryError"]
        ELSE IF ~IsDirAt(files, Parent(to))
        THEN [tree |-> files, outcome |-> "FileNotFoundError"]
        ELSE [tree |-> (files \ NodesAt(files, to)) \cup {File(to, contents)},
              outcome |-> "ok"]

\* _process_target (lines 429-440): the states it can leave, each with the
\* new target
ProcessTarget(st, source, target) ==
    UNION {
        IF ids.outcome # "ok"
        THEN {[st |-> Raise(st, ids.outcome), target |-> target, subs |-> 0]}
        ELSE LET counted == [st EXCEPT !.obj.stats = UpdateSubsCount(@, ids.subs)]
             IN  { IF dates.outcome # "ok"
                   THEN [st |-> Raise(counted, dates.outcome), target |-> target,
                         subs |-> ids.subs]
                   ELSE [st |-> counted, subs |-> ids.subs,
                         target |->
                             IF st.obj.copy /\ Append(target, dates.result) = source
                             THEN Append(target, WithCopySuffix(dates.result))
                             ELSE Append(target, dates.result)] :
                   dates \in SubstituteDates(ids.result) } :
        ids \in {SubstituteIdsOf(st.obj, source[Len(source)])} }

\* The state after a file operation on the tree.
After(st, done) == [st EXCEPT !.tree = done.tree, !.outcome = done.outcome]

\* _process_folder (lines 381-396) once _process_target has returned: the
\* state it leaves, with the (source, target) pair it returns
ProcessFolder(pt, source, target) ==
    IF pt.st.outcome # "ok"
    THEN [st |-> pt.st, source |-> source, target |-> target]
    ELSE IF pt.st.obj.copy
    THEN [st |-> After(pt.st, MakeDir(pt.st.tree, pt.target)),
          source |-> source, target |-> pt.target]
    ELSE [st |-> After(pt.st, RenameFileOrFolder(pt.st.tree, source, pt.target)),
          source |-> pt.target, target |-> pt.target]

\* _process_unknown_file_type (lines 465-471)
ProcessUnknownFileType(files, copy, source, target) ==
    IF copy THEN CopyFile(files, source, target)
    ELSE RenameFileOrFolder(files, source, target)

\* suffix in ['.txt', '.html', '.htm', '.xml', '.json'] (line 417)
TextSuffixes == { <<".", "t", "x", "t">> }

\* _process_txt_based_file (lines 442-463) on a file of one line: the states
\* it can leave, each with the substitutions _substitute_ids made in the line
ProcessTxtBasedFile(st, source, target) ==
    LET contents == (CHOOSE n \in st.tree : n.path = Resolve(source)).data
        reset == [st EXCEPT !.obj.stats.subs_made = 0]
    IN  UNION {
          IF ids.outcome # "ok" THEN {[st |-> Raise(reset, ids.outcome), subs |-> 0]}
          ELSE UNION {
            IF dates.outcome # "ok"
            THEN {[st |-> Raise(counted, dates.outcome), subs |-> ids.subs]}
            ELSE { IF removed.outcome # "ok"
                   THEN [st |-> After(counted, removed), subs |-> ids.subs]
                   ELSE [st |-> After(counted, WriteFile(removed.tree, target,
                                                         dates.result)),
                         subs |-> ids.subs] :
                   removed \in {IF st.obj.copy
                                THEN [tree |-> st.tree, outcome |-> "ok"]
                                ELSE RemoveFile(st.tree, source)} } :
            dates \in SubstituteDates(ids.result),
            counted \in {[reset EXCEPT !.obj.stats = UpdateSubsCount(@, ids.subs)]} } :
          ids \in {SubstituteIdsOf(st.obj, contents)} }

\* One file whose processing ended: subs_made as it then stands, and the
\* substitutions made in the file's name and contents.
Unit(made, own) == [made |-> made, own |-> own]

\* The state when _process_file returns: the unit noted, and line 427.
FileDone(st, own) ==
    IF st.outcome # "ok" THEN st
    ELSE [st EXCEPT !.processed = @ + 1,
                    !.units = @ \cup {Unit(st.obj.stats.subs_made, own)}]

\* _process_file (lines 398-427) for a text file or a file of unknown type,
\* once _process_target has returned.  (mapping_file is None in an object
\* built from a function, line 148.)
ProcessFile(pt, source) ==
    IF pt.st.outcome # "ok" THEN {pt.st}
    ELSE IF Suffix(source[Len(source)]) \in TextSuffixes
    THEN { FileDone(done.st, pt.subs + done.subs) :
           done \in ProcessTxtBasedFile(pt.st, source, pt.target) }
    ELSE { FileDone(After(pt.st, done), pt.subs) :
           done \in {ProcessUnknownFileType(pt.st.tree, pt.st.obj.copy, source,
                                            pt.target)} }

\* _traverse_tree (lines 371-379); _process_file and _process_folder both
\* begin with _process_target (lines 385, 407); iterdir yields the children
\* in an order the operating system chooses.
RECURSIVE TraverseTree(_, _, _, _)
RECURSIVE TraverseChildren(_, _, _, _)
TraverseTree(st, source, target, level) ==
    IF st.outcome # "ok" THEN {st}
    ELSE IF level > MaxDepth THEN {Raise(st, "RecursionError")}
    ELSE UNION {
        IF IsFileAt(st.tree, source) THEN ProcessFile(pt, source)
        ELSE UNION { IF pf.st.outcome # "ok" THEN {pf.st}
                     ELSE TraverseChildren(pf.st, IterDir(pf.st.tree, pf.source),
                                           pf.target, level) :
                     pf \in {ProcessFolder(pt, source, target)} } :
        pt \in ProcessTarget(st, source, target) }

TraverseChildren(st, children, target, level) ==
    IF children = {} \/ st.outcome # "ok" THEN {st}
    ELSE UNION { UNION { TraverseChildren(next, children \ {child}, target, level) :
                         next \in TraverseTree(st, child, target, level + 1) } :
                 child \in children }

\* Lines 311-314: the closing log line reads
\* self.date_replacer.replacements_made.
LogTotals(st) ==
    IF st.outcome = "ok" /\ date_replacer # "object"
    THEN Raise(st, "AttributeError") ELSE st

\* substitute, lines 274-306: the checks of the two paths and the session
\* folder; the state they leave and the target the traversal starts with
SubstituteChecks(source_path, target_path) ==
    LET start == [tree |-> tree, obj |-> obj, processed |-> processed_files,
                  units |-> {}, outcome |-> "ok"]
        copying == [start EXCEPT !.obj.copy = TRUE]
        session == Append(target_path, SessionId)
    IN  IF ~Exists(tree, source_path)
        THEN [st |-> Raise(start, "FileNotFoundError"), target |-> target_path]
        ELSE IF target_path = NoPath
        THEN [st |-> start, target |-> Parent(source_path)]
        ELSE IF source_path \in Parents(target_path)
        THEN [st |-> Raise(copying, "RuntimeError"), target |-> target_path]
        ELSE IF IsFileAt(tree, session)
        THEN [st |-> Raise(copying, "RuntimeError"), target |-> session]
        ELSE IF Exists(tree, session) THEN [st |-> copying, target |-> session]
        ELSE [st |-> After(copying, MakeDir(tree, session)), target |-> session]

\* substitute (lines 267-314): the states it can leave
SubstituteOutcomes(source_path, target_path) ==
    UNION { IF checked.st.outcome # "ok" THEN {checked.st}
            ELSE {LogTotals(st) :
                     st \in TraverseTree(checked.st, source_path, checked.target, 1)} :
            checked \in {SubstituteChecks(source_path, target_path)} }

NoSubstituteCall ==
    [name |-> "none", calls |-> 0, source_path |-> <<>>, target_path |-> NoPath,
     outcome |-> "none", treeBefore |-> {}, copyBefore |-> FALSE,
     units |-> {}]

TreeInit ==
    /\ tree = InitialTree
    /\ date_replacer = "unset"
    /\ processed_files = 0
    /\ scall = NoSubstituteCall

Substitute ==
    /\ obj.built = "ok"
    /\ obj.module = "anonymouus"
    /\ obj.stats.subs_grand_total < MaxSubs
    /\ scall.calls < MaxCalls
    /\ \E source_path \in SourcePaths, target_path \in TargetPaths :
          \E st \in SubstituteOutcomes(source_path, target_path) :
             /\ tree' = st.tree
             /\ obj' = st.obj
             /\ processed_files' = st.processed
             /\ scall' = [name |-> "substitute", calls |-> scall.calls + 1,
                          source_path |-> source_path,
                          target_path |-> target_path, outcome |-> st.outcome,
                          treeBefore |-> tree, copyBefore |-> obj.copy,
                          units |-> st.units]
    /\ UNCHANGED <<args, call, date_replacer, regVars, dateVars>>

\* The strings substitute_string is called with.
StringTexts ==
    { <<>>, <<"a">>, <<"b">>, <<"A", "a">>, <<"a", "a">>, <<"b", " ", "a">>,
      <<"3", "/", "4", "/", "2", "0", "2", "1">>,
      <<"1", "/", "2", "/", "2", "0", "2", "0">>,
      <<"a", " ", "1", "/", "2", "/", "2", "0", "2", "0">>,
      <<"a", " ", "9", "9", "/", "9", "9", "/", "9", "9", "9", "9">>,
      <<"2", "0", "2", "0", "-", "0", "1", "-", "0", "2", " ", "a">> }

\* substitute_string (lines 316-325) on a str: the results it can have
SubstituteStringOutcomes(o, source) ==
    IF Len(source) = 0
    THEN {[outcome |-> "ok", result |-> <<>>, subs |-> 0]}
    ELSE UNION {
        IF ids.outcome # "ok" THEN {ids}
        ELSE {[outcome |-> dates.outcome, result |-> dates.result,
               subs |-> ids.subs] : dates \in SubstituteDates(ids.result)} :
        ids \in {SubstituteIdsOf(o, source)} }

SubstituteString ==
    /\ obj.built = "ok"
    /\ obj.module = "anonymouus"
    /\ obj.stats.subs_grand_total < MaxSubs
    /\ \E source \in StringTexts :
          \E r \in SubstituteStringOutcomes(obj, source) :
             /\ obj' = [obj EXCEPT !.stats = UpdateSubsCount(@, r.subs)]
             /\ call' = [text |-> source, outcome |-> r.outcome,
                         result |-> r.result, subs |-> r.subs,
                         statsBefore |-> obj.stats]
             /\ scall' = [scall EXCEPT !.name = "substitute_string"]
    /\ UNCHANGED <<args, tree, date_replacer, processed_files, regVars, dateVars>>

(***************************************************************************)
(* The specifications.                                                      *)
(***************************************************************************)
vars == <<regVars, anonVars, dateVars, treeVars>>

Init == RegInit /\ AnonInit /\ DateInit /\ TreeInit

\* The registry with one caller: every operation runs to completion before
\* the next starts.
Next ==
    \/ \E function \in GeneratorInputs : set_code_generator(function)
    \/ \E string \in Originals : SubLookup(MainThread, string)
    \/ SubAttempt(MainThread)
    \/ SubInsert(MainThread)
    \/ \E openFails \in BOOLEAN : write_translation_table(openFails)
    \/ Tick

Spec == Init /\ [][Next]_vars

\* The registry with two callers, whose subtitute calls interleave between the
\* lookup, the loop iterations and the append: nothing in subtitute holds a
\* lock.  A generator is installed, if at all, before the first request.
NextConc ==
    \/ /\ requested = {}
       /\ \E function \in GeneratorInputs : set_code_generator(function)
    \/ \E t \in Threads, string \in Originals : SubLookup(t, string)
    \/ \E t \in Threads : SubAttempt(t)
    \/ \E t \in Threads : SubInsert(t)

InitConc == Init /\ ~IsFile(fs, Dest)

SpecConc == InitConc /\ [][NextConc]_vars

\* The registry with one caller who installs a generator before the first
\* request and then asks for originals in the order 1, 2, 3, ..., repeating
\* earlier ones at will, until the table holds MaxRecords records.
NextDup ==
    \/ /\ memory = <<>>
       /\ \E function \in GeneratorInputs : set_code_generator(function)
    \/ /\ code_generator_function # "None"
       /\ \E string \in ManyOriginals :
             /\ string <= Len(memory) + 1
             /\ SubLookup(MainThread, string)
    \/ SubAttempt(MainThread)
    \/ SubInsert(MainThread)

SpecDup == Init /\ [][NextDup]_vars

\* An Anonymize object: one construction, then _substitute_ids calls.
NextAnon ==
    \/ Construct
    \/ ConstructLegacy
    \/ SubstituteIds
    \/ SubstituteIdsLegacy

InitAnon == RegInit /\ ~IsFile(fs, Dest) /\ AnonInit /\ DateInit /\ TreeInit

SpecAnon == InitAnon /\ [][NextAnon]_vars

\* Anonymize.substitute called again and again on one object and one tree.
NextTree == Substitute

\* The object is one built from a function and a pattern, with or without a
\* date replacer.
InitTree ==
    /\ RegInit /\ ~IsFile(fs, Dest)
    /\ DateInit
    /\ \E a \in SubstituteObjects : obj = AnonymizeInit(a) /\ args = a
    /\ call = NoCall
    /\ tree = InitialTree
    /\ date_replacer \in DateReplacerInputs
    /\ processed_files = 0
    /\ scall = NoSubstituteCall

SpecTree == InitTree /\ [][NextTree]_vars

\* Anonymize.substitute_string called again and again on one such object.
NextString == SubstituteString

SpecString == InitTree /\ [][NextString]_vars

\* Date redactors: configuration calls and replace calls in any order.
NextDates ==
    \/ \E state \in BOOLEAN : SetReplaceInvalidDates(state)
    \/ ClearPatterns
    \/ ResetPatterns
    \/ AddPattern
    \/ Replace

\* The redactor is a DateReplacer or a DateHandler, built with either flag.
InitDates ==
    /\ RegInit /\ ~IsFile(fs, Dest)
    /\ AnonInit
    /\ TreeInit
    /\ default_patterns = DefaultPatterns
    /\ redactor \in {NewRedactor(class, state) : class \in Classes, state \in BOOLEAN}
    /\ dcall = NoDateCall

SpecDates == InitDates /\ [][NextDates]_vars

(***************************************************************************)
(* Properties of Anonymize.                                                 *)
(***************************************************************************)
\* The preprocess_text argument is None or a function _check_callable takes.
PreprocessAccepted(a) ==
    a.preprocess_text = NoFunction \/ CheckCallable(a.preprocess_text) = "True"

\* Anonymize of anonymouus.py was called with a dictionary or the path of a
\* table as mapping, and without a pattern.
DictionaryModeRequested ==
    /\ args.module = "anonymouus"
    /\ args.kind \in {"dict", "path"}
    /\ ~args.pattern.given
    /\ PreprocessAccepted(args)

Values(rules) == {rules[i].value : i \in 1..Len(rules)}

\* C6: constructing Anonymize with a dictionary or with the path of a table,
\* and no pattern, succeeds in dictionary mode with the entries given as its
\* rules; TypeError is raised only for a mapping that is neither a
\* dictionary, a path nor a callable.
C6_DictionaryModeBuilt ==
    /\ DictionaryModeRequested =>
          /\ obj.built = "ok"
          /\ ~obj.mapping_is_function
          /\ ~obj.pattern.given
          /\ Len(obj.mapping) = Len(args.rules)
          /\ Values(obj.mapping) = Values(args.rules)
    /\ (args.module = "anonymouus" /\ obj.built = "TypeError") =>
          args.kind = "other"

\* The key is plain text: as a regular expression it matches itself only.
IsLiteralKey(a, key) ==
    /\ ~key.re
    /\ a.kind = "dict" => \A i \in 1..Len(key.s) : key.s[i] \notin SpecialChars

AllLiteral(a) == \A i \in 1..Len(a.rules) : IsLiteralKey(a, a.rules[i].key)

\* The rules whose key stands at position i of the text, longest key first.
RulesAt(rules, text, i) ==
    {r \in Range(rules) :
        /\ i + Len(r.key.s) - 1 <= Len(text)
        /\ SubSeq(text, i, i + Len(r.key.s) - 1) = r.key.s
        /\ \A q \in Range(rules) :
              (/\ i + Len(q.key.s) - 1 <= Len(text)
               /\ SubSeq(text, i, i + Len(q.key.s) - 1) = q.key.s)
                 => Len(q.key.s) <= Len(r.key.s)}

\* The text with every span that is a key replaced by the key's pseudonym,
\* everything else kept, and the number of spans replaced.
RECURSIVE ReplaceSpans(_, _, _)
ReplaceSpans(rules, text, i) ==
    IF i > Len(text) THEN [string |-> <<>>, n |-> 0]
    ELSE IF RulesAt(rules, text, i) # {}
    THEN LET r == CHOOSE r \in RulesAt(rules, text, i) : TRUE
             rest == ReplaceSpans(rules, text, i + Len(r.key.s))
         IN  [string |-> r.value \o rest.string, n |-> rest.n + 1]
    ELSE LET rest == ReplaceSpans(rules, text, i + 1)
         IN  [string |-> <<text[i]>> \o rest.string, n |-> rest.n]

\* C7: Anonymize built in dictionary mode from literal keys, without word
\* boundaries: every _substitute_ids call returns the text with each span
\* that is a key replaced by its pseudonym and the rest unchanged, and adds
\* the number of spans replaced to subs_made and subs_grand_total.
C7_LiteralSpansReplaced ==
    (/\ DictionaryModeRequested
     /\ args.use_word_boundaries = "False"
     /\ AllLiteral(args)) =>
        /\ obj.built = "ok"
        /\ call # NoCall =>
              LET expected == ReplaceSpans(args.rules, call.text, 1)
              IN  /\ call.outcome = "ok"
                  /\ call.result = expected.string
                  /\ obj.stats.subs_made = call.statsBefore.subs_made + expected.n
                  /\ obj.stats.subs_grand_total =
                        call.statsBefore.subs_grand_total + expected.n

\* The outputs of the tests (tests/test_substitute_ids.py, exp).
TestExpected ==
    << <<"a", "a", "a", "a">>,
       <<"J", "a", "n", "e", "D", "o", "e">>,
       <<"a", "m", "s", "t", "e", "r", "d", "a", "m">>,
       <<"c", "c", "c", "c">>,
       <<"d", "d", "d", "d">>,
       <<"d", "d", "d", "d", "p", "i", "l", "l", "a", "r">> >>

\* C8: Anonymize built from the mapping of the tests with no option given
\* wraps no key in word boundaries and matches case-sensitively: the inputs
\* of the tests give their expected outputs.
C8_NoOptionsNoBoundaries ==
    (/\ DictionaryModeRequested
     /\ args.rules = TestMapping
     /\ args.use_word_boundaries = "default"
     /\ ~args.ignorecase
     /\ args.preprocess_text = NoFunction) =>
        /\ obj.built = "ok"
        /\ ~obj.use_word_boundaries
        /\ \A i \in 1..Len(TestIds) :
              call.text = TestIds[i] /\ call # NoCall =>
                  call.outcome = "ok" /\ call.result = TestExpected[i]

\* The key as the caller wrote it: without the word boundaries around it and
\* without the backslashes of re.escape.
RECURSIVE Unescape(_)
Unescape(s) ==
    IF s = <<>> THEN <<>>
    ELSE IF Head(s) = Backslash /\ Len(s) >= 2
    THEN <<s[2]>> \o Unescape(SubSeq(s, 3, Len(s)))
    ELSE <<Head(s)>> \o Unescape(Tail(s))

LiteralKey(a, o, key) ==
    LET bare == IF o.use_word_boundaries
                THEN SubSeq(key.s, 3, Len(key.s) - 2) ELSE key.s
    IN  IF a.kind = "path" THEN Unescape(bare) ELSE bare

\* Regex-keyed rules first, then the literal rules from the longest literal
\* key to the shortest.
Ordered(a, o) ==
    \A i, j \in 1..Len(o.mapping) :
        i < j =>
            /\ o.mapping[j].key.re => o.mapping[i].key.re
            /\ (~o.mapping[i].key.re /\ ~o.mapping[j].key.re) =>
                  Len(LiteralKey(a, o, o.mapping[i].key))
                      >= Len(LiteralKey(a, o, o.mapping[j].key))

\* C9: in the rule set Anonymize builds in dictionary mode every regex-keyed
\* rule precedes every literal rule, and the literal rules are in
\* non-increasing order of the length of their literal key.
C9_RulesOrdered ==
    DictionaryModeRequested => obj.built = "ok" /\ Ordered(args, obj)

IsProperSubstring(short, long) ==
    /\ Len(short) < Len(long)
    /\ \E i \in 1..(Len(long) - Len(short) + 1) :
          SubSeq(long, i, i + Len(short) - 1) = short

\* C10: with two literal keys in a dictionary-mode rule set, one a proper
\* substring of the other, _substitute_ids of the longer key returns the
\* longer key's pseudonym.
C10_LongerKeyWins ==
    (/\ DictionaryModeRequested
     /\ AllLiteral(args)
     /\ Len(args.rules) = 2) =>
        \A i, j \in 1..2 :
            IsProperSubstring(args.rules[i].key.s, args.rules[j].key.s) =>
                /\ obj.built = "ok"
                /\ (call # NoCall /\ call.text = args.rules[j].key.s) =>
                      call.outcome = "ok" /\ call.result = args.rules[j].value

\* The outputs of the tests with word boundaries
\* (tests/test_substitute_ids.py, exp_bounds).
TestExpectedBounds ==
    << <<"a", "a", "a", "a">>,
       <<"J", "a", "n", "e", "D", "o", "e">>,
       <<"a", "m", "s", "t", "e", "r", "d", "a", "m">>,
       <<"c", "c", "c", "c">>,
       <<"d", "d", "d", "d">>,
       <<"c", "a", "t", "e", "r", "p", "i", "l", "l", "a", "r">> >>

\* The text is one word of letters.
IsWord(s) == s # <<>> /\ \A i \in 1..Len(s) : s[i] \in WordChars

\* C11: Anonymize built in dictionary mode with word boundaries replaces a
\* key only where word boundaries delimit its match: a text that is the key
\* gives the pseudonym, a text that continues the key with a letter is left
\* unchanged, and the inputs of the tests give the outputs expected with
\* word boundaries (casper is rewritten, caterpillar is not).
C11_BoundariesDelimit ==
    (/\ DictionaryModeRequested
     /\ args.use_word_boundaries = "True"
     /\ ~args.ignorecase
     /\ args.preprocess_text = NoFunction) =>
        /\ obj.built = "ok"
        /\ obj.use_word_boundaries
        /\ (call # NoCall /\ args.rules = TestMapping) =>
              \A i \in 1..Len(TestIds) :
                  call.text = TestIds[i] =>
                      call.outcome = "ok" /\ call.result = TestExpectedBounds[i]
        /\ (call # NoCall /\ Len(args.rules) = 1 /\ ~args.rules[1].key.re
                /\ IsWord(args.rules[1].key.s)) =>
              /\ call.text = args.rules[1].key.s =>
                    call.outcome = "ok" /\ call.result = args.rules[1].value
              /\ (\E c \in WordChars : call.text = args.rules[1].key.s \o <<c>>) =>
                    call.outcome = "ok" /\ call.result = call.text

\* Anonymize of anonymouus.py was called with a dictionary or the path of a
\* table as mapping, and with a pattern.
LookupModeRequested ==
    /\ args.module = "anonymouus"
    /\ args.kind \in {"dict", "path"}
    /\ args.pattern.given
    /\ PreprocessAccepted(args)

\* The texts the pattern matches in the text, from the left, not overlapping.
RECURSIVE MatchesFrom(_, _, _, _)
MatchesFrom(items, text, pos, ignorecase) ==
    LET s == SearchFrom(items, text, pos, ignorecase)
    IN  IF s = 0 THEN <<>>
        ELSE LET end == MatchEnd(items, 1, text, s, ignorecase)
             IN  <<SubSeq(text, s, end - 1)>>
                    \o (IF end > Len(text) THEN <<>>
                        ELSE MatchesFrom(items, text,
                                         IF end > s THEN end ELSE s + 1, ignorecase))

IsKeyOf(rules, matched) ==
    \E i \in 1..Len(rules) : ~rules[i].key.re /\ rules[i].key.s = matched

\* C12: Anonymize built with a lookup mapping and a pattern leaves every
\* match that is not a key of the mapping unchanged and counts only the
\* matches that are keys: subs_made and subs_grand_total rise by the number
\* of matches found in the mapping.
C12_UnmappedMatchesPass ==
    LookupModeRequested =>
        /\ obj.built = "ok"
        /\ call # NoCall =>
              LET found == MatchesFrom(ParseRegex(args.pattern.s), call.text, 1,
                                       args.ignorecase)
                  mapped == {i \in 1..Len(found) : IsKeyOf(args.rules, found[i])}
              IN  /\ call.outcome = "ok"
                  /\ mapped = {} => call.result = call.text
                  /\ obj.stats.subs_made =
                        call.statsBefore.subs_made + Cardinality(mapped)
                  /\ obj.stats.subs_grand_total =
                        call.statsBefore.subs_grand_total + Cardinality(mapped)

\* Anonymize of anonymouus.py was called with a function as mapping, and
\* with a pattern.
FunctionModeRequested ==
    /\ args.module = "anonymouus"
    /\ args.kind = "callable"
    /\ args.pattern.given
    /\ PreprocessAccepted(args)

\* C13: a mapping function is validated when Anonymize is constructed: with
\* a function that takes no positional argument, has further parameters
\* without defaults, or raises on a string, the construction fails, and so
\* no _substitute_ids call is the first to find the function invalid.
C13_FunctionValidatedAtConstruction ==
    FunctionModeRequested =>
        /\ ~Accepts(args.function) => obj.built \notin {"none", "ok"}
        /\ call.outcome \notin {"TypeError", "Exception"}

(***************************************************************************)
(* Date redaction: the claims.                                             *)
(***************************************************************************)
\* The patterns of a list that match somewhere in a string.
MatchingPatterns(patterns, string) ==
    {i \in 1..Len(patterns) : SpansFrom(patterns[i].items, string, 1) # <<>>}

\* The matched text of a span passes the validity check of lines 47-51.
PassesValidityCheck(datestr, invalidToo) ==
    invalidToo \/ ParseOutcomes(UnderscoresToSpaces(datestr)) = {TRUE}

\* Whether the matched text of every span parses is settled by its numbers.
ValiditySettled(string, spans) ==
    \A k \in 1..Len(spans) :
        Cardinality(ParseOutcomes(UnderscoresToSpaces(
            SubSeq(string, spans[k][1], spans[k][2] - 1)))) = 1

\* Some span's matched text cannot be parsed as a date.
SomeSpanInvalid(string, spans) ==
    \E k \in 1..Len(spans) :
        ParseOutcomes(UnderscoresToSpaces(
            SubSeq(string, spans[k][1], spans[k][2] - 1))) = {FALSE}

\* The string with every span that passes the validity check replaced by
\* the pair's replacement and every character outside the spans kept; the
\* spans are taken from the right, so that each is still where it was found.
RECURSIVE EverySpanReplaced(_, _, _, _)
EverySpanReplaced(string, spans, pair, invalidToo) ==
    IF spans = <<>> THEN string
    ELSE LET last == spans[Len(spans)]
             datestr == SubSeq(string, last[1], last[2] - 1)
             replaced ==
                 IF PassesValidityCheck(datestr, invalidToo)
                 THEN SubSeq(string, 1, last[1] - 1)
                        \o Replacement(pair.replacement, datestr)
                        \o SubSeq(string, last[2], Len(string))
                 ELSE string
         IN  EverySpanReplaced(replaced, SubSeq(spans, 1, Len(spans) - 1), pair,
                               invalidToo)

\* A replace call on a string that only pattern i of the list matches, and
\* whose result, as the claims have it, no later pattern of the list matches.
OnlyPatternMatching(i) ==
    LET pair == SelfPatterns[i]
        spans == SpansFrom(pair.items, dcall.string, 1)
        expected == EverySpanReplaced(dcall.string, spans, pair,
                                      redactor.replace_invalid_dates)
    IN  /\ dcall.name = "replace"
        /\ MatchingPatterns(SelfPatterns, dcall.string) = {i}
        /\ ValiditySettled(dcall.string, spans)
        /\ \A j \in MatchingPatterns(SelfPatterns, expected) : j <= i

\* C17: with replace_invalid_dates false, replace leaves a substring that
\* matches a date pattern but cannot be parsed as a date unchanged; with
\* replace_invalid_dates true it replaces that substring by the pattern's
\* replacement.
C17_InvalidDatesGated ==
    \A i \in 1..Len(SelfPatterns) :
        LET pair == SelfPatterns[i]
            spans == SpansFrom(pair.items, dcall.string, 1)
        IN  (OnlyPatternMatching(i) /\ SomeSpanInvalid(dcall.string, spans)) =>
                dcall.result =
                    EverySpanReplaced(dcall.string, spans, pair,
                                      redactor.replace_invalid_dates)

\* C18: for a text with several non-overlapping matches of one date
\* pattern, replace replaces every span that passes the validity check by
\* the replacement and leaves every character outside the spans unchanged,
\* whatever the length of the replacement.
C18_EverySpanReplaced ==
    \A i \in 1..Len(SelfPatterns) :
        LET pair == SelfPatterns[i]
            spans == SpansFrom(pair.items, dcall.string, 1)
        IN  (OnlyPatternMatching(i) /\ Len(spans) >= 2) =>
                dcall.result =
                    EverySpanReplaced(dcall.string, spans, pair,
                                      redactor.replace_invalid_dates)

\* C19: after any sequence of add_pattern, clear_patterns and
\* reset_patterns calls, a call of reset_patterns leaves the redactor's
\* pattern list equal to the six built-in default pairs.
C19_ResetGivesDefaults ==
    dcall.name = "reset_patterns" => SelfPatterns = DefaultPatterns

(***************************************************************************)
(* Anonymize.substitute: the claims.                                       *)
(***************************************************************************)
\* The source path of the last call did not exist.
SourceMissing == ~Exists(scall.treeBefore, scall.source_path)

\* The target of the last call was an existing file.
TargetIsFile ==
    scall.target_path # NoPath /\ IsFileAt(scall.treeBefore, scall.target_path)

\* The folder the last call writes to, the target with its session folder,
\* is the source or lies in the source tree.
WritesIntoSource ==
    /\ scall.target_path # NoPath
    /\ IsPrefix(Resolve(scall.source_path),
                Resolve(Append(scall.target_path, SessionId)))

\* C20: substitute raises an error and creates, renames, rewrites and
\* removes nothing in the file tree when the source path does not exist,
\* when the target is an existing file, and when the folder written to (the
\* target with its session folder) is the source or lies in the source tree.
C20_InputErrorsChangeNothing ==
    (scall.name = "substitute"
        /\ (SourceMissing \/ TargetIsFile \/ WritesIntoSource)) =>
            /\ scall.outcome # "ok"
            /\ tree = scall.treeBefore

(***************************************************************************)
(* Anonymize: the later claims.                                             *)
(***************************************************************************)
\* The string as _substitute_ids matches it when preprocessing is optional:
\* passed through the function given, or as it is when none was given.
Preprocessed(a, string) ==
    IF a.preprocess_text = NoFunction THEN string
    ELSE CallFunction(a.preprocess_text.f, string)

\* The date pass of the claim: the replacer's results, or the string itself
\* when no date replacer was given.
DatePass(string) ==
    IF date_replacer = "unset" THEN {string}
    ELSE {out.string : out \in ReplaceOutcomes(DefaultPatterns, string, FALSE)}

\* C21: substitute_string of a non-empty string returns the date pass
\* applied to the result of the identity pass, the date pass being the
\* identity when no date replacer was given.
C21_IdsThenDates ==
    (scall.name = "substitute_string" /\ Len(call.text) > 0) =>
        /\ call.outcome = "ok"
        /\ call.result \in
              DatePass(SubstituteBranches(obj, Preprocessed(args, call.text)).result)

\* C22: when the processing of a file ends, subs_made is the number of
\* substitutions made in that file's name and contents.
C22_SubsMadePerFile ==
    scall.name = "substitute" =>
        \A u \in scall.units : u.made = u.own

\* The rules one after another, each replacing every span that is its key in
\* the text the rules before it left; n counts every replacement.
RECURSIVE Cascade(_, _)
Cascade(rules, text) ==
    IF rules = <<>> THEN [string |-> text, n |-> 0]
    ELSE LET r == ReplaceSpans(<<Head(rules)>>, text, 1)
             rest == Cascade(Tail(rules), r.string)
         IN  [string |-> rest.string, n |-> r.n + rest.n]

\* C27: in dictionary mode (literal keys, no word boundaries) a
\* _substitute_ids call returns the text rewritten by the rules in rule-set
\* order, each rule working on what the earlier rules wrote, and Anonymize
\* of anonymouus.py counts every replacement of every rule.
C27_RulesCascade ==
    /\ (/\ DictionaryModeRequested
        /\ args.kind = "dict"
        /\ args.use_word_boundaries = "False"
        /\ AllLiteral(args)) =>
            /\ obj.built = "ok"
            /\ call # NoCall =>
                  LET expected == Cascade(obj.mapping,
                                          Preprocessed(args, call.text))
                  IN  /\ call.outcome = "ok"
                      /\ call.result = expected.string
                      /\ obj.stats.subs_made =
                            call.statsBefore.subs_made + expected.n
                      /\ obj.stats.subs_grand_total =
                            call.statsBefore.subs_grand_total + expected.n
    /\ (/\ args.module = "uunonymous"
        /\ args.kind = "dict"
        /\ ~args.pattern.given
        /\ args.use_word_boundaries = "False"
        /\ AllLiteral(args)
        /\ call # NoCall) =>
            /\ call.outcome = "ok"
            /\ call.result = Cascade(obj.mapping, call.text).string

\* C28: a _substitute_ids call on an object built with a mapping function
\* returns what the pattern gives on the text passed through the
\* preprocessing function, and on the text as given when no preprocessing
\* function was configured; it raises no error.
C28_PreprocessingOptional ==
    (/\ args.module = "anonymouus"
     /\ obj.built = "ok"
     /\ Accepts(obj.function)
     /\ call # NoCall) =>
        /\ call.outcome = "ok"
        /\ call.result =
              SubstituteBranches(obj, Preprocessed(args, call.text)).result

\* The files of a tree.
FilesOf(files) == {n \in files : n.kind = "file"}

\* The name has ".copy" in it.
IsCopyName(name) ==
    \E i \in 1..(Len(name) - 4) :
        SubSeq(name, i, i + 4) = <<".", "c", "o", "p", "y">>

\* C29: a substitute call without a target path, on a source that exists,
\* leaves the tree with as many files as before (it renames and rewrites,
\* and adds none), none of them a new file with ".copy" in its name.
C29_NoTargetWorksInPlace ==
    (/\ scall.name = "substitute"
     /\ scall.target_path = NoPath
     /\ Exists(scall.treeBefore, scall.source_path)) =>
        /\ Cardinality(FilesOf(tree)) = Cardinality(FilesOf(scall.treeBefore))
        /\ \A n \in tree \ scall.treeBefore : ~IsCopyName(n.path[Len(n.path)])

====
